---- MODULE Spec2Model ----
(***************************************************************************)
(* Verification model of the chart library's data layer (class DataLayer). *)
(*                                                                         *)
(* The data layer keeps JavaScript objects that are shared by reference:   *)
(* a TimePointData record is reachable from the timestamp-keyed map and    *)
(* from the sorted array, a plot row from a TimePointData's mapping and    *)
(* from a per-series row list.  The model therefore keeps an object heap:  *)
(* timePointData[id] and plotRows[id] are the objects, and every other     *)
(* structure holds ids.  Timestamps are whole days: model timestamp t      *)
(* stands for 00:00 UTC of the t-th day counted from 2019-12-30.           *)
(***************************************************************************)
EXTENDS Integers, Sequences, FiniteSets, TLC

\* Timestamps range over 1..MaxTime.
MaxTime == 2

\* Series handles are 1..NumSeries.
NumSeries == 2

\* Item values range over 1..MaxValue (one scalar stands for the OHLC quadruple).
MaxValue == 1

\* A run makes at most MaxCalls calls of the public operations.
MaxCalls == 5

Times == 1..MaxTime
Series == 1..NumSeries
Values == 1..MaxValue

VARIABLES
    timePointData,          \* heap of TimePointData objects {index, timePoint, mapping}
    plotRows,               \* heap of (Series|Whitespace)PlotRow objects
    pointDataByTimePoint,   \* Map<UTCTimestamp, TimePointData>
    seriesRowsBySeries,     \* Map<Series, SeriesPlotRow[]>
    seriesLastTimePoint,    \* Map<Series, TimePoint>
    sortedTimePoints,       \* InternalTimeScalePoint[]
    lastCall,               \* the public operation that ran last, with its arguments
    response,               \* what that operation returned (or the error it threw)
    history,                \* the layer before a setSeriesData on a series without data
    calls,                  \* the number of calls made so far
    heldTimes,              \* per series, the timestamps of the items the caller has given it
    heldWhitespace,         \* per series, the timestamps of its items that are whitespace
    items,                  \* the item objects the caller owns and passes to the calls
    madeRows,               \* per row the last call made: its originalTime, the time given
    invalidateMask,         \* ChartWidget._invalidateMask: the pending mask, or null
    drawPlanned,            \* ChartWidget._drawPlanned
    frameRequests,          \* the animation-frame callbacks requested and not yet run
    drawRafId,              \* ChartWidget._drawRafId
    destroyed,              \* whether destroy has been called
    pass,                   \* the running _drawImpl: its position, mask and caller
    drawLog,                \* what the last draw pass did to the model and the widgets, in order
    submitted,              \* the masks given to invalidate that no draw pass has taken yet
    heldMasks,              \* InvalidateMask objects a caller holds, by name
    recorded,               \* per such mask, the calls made on it so far
    listeners,              \* Delegate._listeners
    firing,                 \* the calls of Delegate.fire in flight, the innermost last
    fired                   \* the calls of Delegate.fire that have returned, in order

vars == <<timePointData, plotRows, pointDataByTimePoint, seriesRowsBySeries,
          seriesLastTimePoint, sortedTimePoints, lastCall, response, history, calls, heldTimes,
          heldWhitespace, items, madeRows, invalidateMask, drawPlanned, frameRequests,
          drawRafId, destroyed, pass, drawLog, submitted, heldMasks, recorded, listeners, firing,
          fired>>

maskVars == <<heldMasks, recorded>>

delegateVars == <<listeners, firing, fired>>

widgetVars ==
    <<invalidateMask, drawPlanned, frameRequests, drawRafId, destroyed, pass, drawLog, submitted>>

-----------------------------------------------------------------------------
(* JavaScript Map, arrays, optional values *)

MapSet(m, k, v) == [x \in (DOMAIN m) \cup {k} |-> IF x = k THEN v ELSE m[x]]

MapDelete(m, k) == [x \in (DOMAIN m) \ {k} |-> m[x]]

MapHas(m, k) == k \in DOMAIN m

MapSize(m) == Cardinality(DOMAIN m)

EmptyMap == [x \in {} |-> x]

Range(seq) == {seq[i] : i \in 1..Len(seq)}

\* undefined / null, and a present value
Nothing == << >>

Some(x) == <<x>>

\* Array.prototype.splice(at, 0, x) with a 0-based position
SpliceIn(arr, at, x) == SubSeq(arr, 1, at) \o <<x>> \o SubSeq(arr, at + 1, Len(arr))

\* the ascending enumeration of a finite set of integers
RECURSIVE Ascending(_)
Ascending(S) ==
    IF S = {} THEN << >>
    ELSE LET m == CHOOSE x \in S : \A y \in S : x <= y
         IN <<m>> \o Ascending(S \ {m})

Max(a, b) == IF a >= b THEN a ELSE b

Min(a, b) == IF a <= b THEN a ELSE b

-----------------------------------------------------------------------------
(* The layer as one value, so that the methods are functions on it *)

Layer ==
    [timePointData |-> timePointData, plotRows |-> plotRows,
     pointDataByTimePoint |-> pointDataByTimePoint,
     seriesRowsBySeries |-> seriesRowsBySeries,
     seriesLastTimePoint |-> seriesLastTimePoint,
     sortedTimePoints |-> sortedTimePoints]

EmptyLayer ==
    [timePointData |-> << >>, plotRows |-> << >>,
     pointDataByTimePoint |-> EmptyMap,
     seriesRowsBySeries |-> EmptyMap,
     seriesLastTimePoint |-> EmptyMap,
     sortedTimePoints |-> << >>]

-----------------------------------------------------------------------------
(* Items, time conversion, plot rows *)

isWhitespaceData(item) == "value" \notin DOMAIN item

isSeriesPlotRow(row) == "value" \in DOMAIN row

\* a caller's item: {time} or {time, value}; time is a UTCTimestamp
Items == [time : Times] \cup [time : Times, value : Values]

timestampConverter(time) == [timestamp |-> time]

\* wrapWhitespaceData(getLineBasedSeriesPlotRow)
createPlotRow(time, index, item) ==
    IF isWhitespaceData(item)
    THEN [time |-> time, index |-> index]
    ELSE [time |-> time, index |-> index, value |-> item.value]

createEmptyTimePointData(timePoint) ==
    [index |-> 0, mapping |-> EmptyMap, timePoint |-> timePoint]

\* strictly ascending data sets, as checkItemsAreOrdered admits them
RECURSIVE DataSetsOver(_)
DataSetsOver(ts) ==
    IF ts = << >> THEN {<< >>}
    ELSE LET rest == DataSetsOver(Tail(ts))
         IN rest \cup {<<i>> \o d : i \in {x \in Items : x.time = Head(ts)}, d \in rest}

DataSets == DataSetsOver(Ascending(Times))

-----------------------------------------------------------------------------
(* Calendar and tick-mark weights *)

\* the UTC calendar day of model timestamp t (t = 1 is 2019-12-31)
CalendarOf(t) ==
    IF t <= 1 THEN [year |-> 2019, month |-> 12, day |-> 30 + t]
    ELSE [year |-> 2020, month |-> 1, day |-> t - 1]

\* the coarsest calendar unit that rolls over between prev and cur
weightByTime(cur, prev) ==
    LET c == CalendarOf(cur)
        p == CalendarOf(prev)
    IN  IF c.year # p.year THEN 3
        ELSE IF c.month # p.month THEN 2
        ELSE IF c.day # p.day THEN 1
        ELSE 0

\* weights are recomputed for the tail starting at startIndex (0-based);
\* a point without predecessor keeps the weight it has
fillWeightsForPoints(points, startIndex) ==
    [i \in 1..Len(points) |->
        IF i - 1 >= startIndex /\ i > 1
        THEN [points[i] EXCEPT !.timeWeight =
                  weightByTime(points[i].time.timestamp, points[i - 1].time.timestamp)]
        ELSE points[i]]

-----------------------------------------------------------------------------
(* helpers/algorithms.ts *)

\* the comparator updateSeriesData passes to lowerbound
TimeBefore(a, b) == a.time.timestamp < b

RECURSIVE lowerboundLoop(_, _, _, _)
lowerboundLoop(arr, value, start, count) ==
    IF 0 < count
    THEN LET count2 == count \div 2
             mid == start + count2
         IN  IF TimeBefore(arr[mid + 1], value)
             THEN lowerboundLoop(arr, value, mid + 1, count - (count2 + 1))
             ELSE lowerboundLoop(arr, value, start, count2)
    ELSE start

lowerbound(arr, value) == lowerboundLoop(arr, value, 0, Len(arr) - 0)

-----------------------------------------------------------------------------
(* DataLayer: private helpers *)

\* a faulty variant: the rows of the mapping get the index, the point itself does not
assignIndexToRowsOnly(L, pd, index) ==
    LET mapping == L.timePointData[pd].mapping
        rowsOfPoint == {mapping[s] : s \in DOMAIN mapping}
    IN  [L EXCEPT
            !.plotRows = [r \in DOMAIN L.plotRows |->
                            IF r \in rowsOfPoint
                            THEN [L.plotRows[r] EXCEPT !.index = index]
                            ELSE L.plotRows[r]]]

\* a faulty variant: the point gets the index, the rows of its mapping do not
assignIndexToPointOnly(L, pd, index) ==
    [L EXCEPT !.timePointData[pd].index = index]

assignIndexToPointData(L, pd, index) ==
    LET mapping == L.timePointData[pd].mapping
        rowsOfPoint == {mapping[s] : s \in DOMAIN mapping}
    IN  [L EXCEPT
            !.timePointData[pd].index = index,
            !.plotRows = [r \in DOMAIN L.plotRows |->
                            IF r \in rowsOfPoint
                            THEN [L.plotRows[r] EXCEPT !.index = index]
                            ELSE L.plotRows[r]]]

RECURSIVE assignIndexFrom(_, _, _)
\* for (index = from; index < points.length; ++index) assignIndexToPointData(...)
assignIndexFrom(L, points, index) ==
    IF index < Len(points)
    THEN assignIndexFrom(assignIndexToPointData(L, points[index + 1].pointData, index),
                         points, index + 1)
    ELSE L

_cleanupPointsData(L) ==
    LET emptied == {L.sortedTimePoints[i].time.timestamp :
                        i \in {j \in 1..Len(L.sortedTimePoints) :
                                 MapSize(L.timePointData[L.sortedTimePoints[j].pointData].mapping) = 0}}
    IN  [L EXCEPT !.pointDataByTimePoint =
            [t \in (DOMAIN L.pointDataByTimePoint) \ emptied |-> L.pointDataByTimePoint[t]]]

\* seriesRows: the ids of the rows built by the ingest, whitespace rows included
_setRowsToSeries(L, series, seriesRows) ==
    IF Len(seriesRows) # 0
    THEN [L EXCEPT
            !.seriesRowsBySeries =
                MapSet(@, series, SelectSeq(seriesRows, LAMBDA r : isSeriesPlotRow(L.plotRows[r]))),
            !.seriesLastTimePoint =
                MapSet(@, series, L.plotRows[seriesRows[Len(seriesRows)]].time)]
    ELSE [L EXCEPT
            !.seriesRowsBySeries = MapDelete(@, series),
            !.seriesLastTimePoint = MapDelete(@, series)]

\* a faulty variant: the row is appended whatever its time
appendSeriesRow(L, series, plotRow) ==
    LET seriesData == IF MapHas(L.seriesRowsBySeries, series)
                      THEN L.seriesRowsBySeries[series] ELSE << >>
        row == L.plotRows[plotRow]
    IN  [L EXCEPT
            !.seriesRowsBySeries =
                MapSet(@, series,
                       IF isSeriesPlotRow(row) THEN Append(seriesData, plotRow) ELSE seriesData),
            !.seriesLastTimePoint = MapSet(@, series, row.time)]

\* a faulty variant: a value row at the time of the last row does not replace it
keepLastSeriesRow(L, series, plotRow) ==
    LET seriesData == IF MapHas(L.seriesRowsBySeries, series)
                      THEN L.seriesRowsBySeries[series] ELSE << >>
        row == L.plotRows[plotRow]
        n == Len(seriesData)
        newData ==
            IF n = 0 \/ row.time.timestamp > L.plotRows[seriesData[n]].time.timestamp
            THEN IF isSeriesPlotRow(row) THEN Append(seriesData, plotRow) ELSE seriesData
            ELSE IF isSeriesPlotRow(row)
                 THEN seriesData
                 ELSE SubSeq(seriesData, 1, n - 1)
    IN  [L EXCEPT
            !.seriesRowsBySeries = MapSet(@, series, newData),
            !.seriesLastTimePoint = MapSet(@, series, row.time)]

_updateLastSeriesRow(L, series, plotRow) ==
    LET seriesData == IF MapHas(L.seriesRowsBySeries, series)
                      THEN L.seriesRowsBySeries[series] ELSE << >>
        row == L.plotRows[plotRow]
        n == Len(seriesData)
        newData ==
            IF n = 0 \/ row.time.timestamp > L.plotRows[seriesData[n]].time.timestamp
            THEN IF isSeriesPlotRow(row) THEN Append(seriesData, plotRow) ELSE seriesData
            ELSE IF isSeriesPlotRow(row)
                 THEN [seriesData EXCEPT ![n] = plotRow]
                 ELSE SubSeq(seriesData, 1, n - 1)
    IN  [L EXCEPT
            !.seriesRowsBySeries = MapSet(@, series, newData),
            !.seriesLastTimePoint = MapSet(@, series, row.time)]

-----------------------------------------------------------------------------
(* DataLayer: time scale *)

MaxOf(S) == CHOOSE x \in S : \A y \in S : y <= x

RowValues(L, rowIds) == [i \in 1..Len(rowIds) |-> L.plotRows[rowIds[i]]]

RECURSIVE syncCommonPrefixLosingWeights(_, _, _)
\* a faulty variant: the new point does not take over the time weight of the old point
syncCommonPrefixLosingWeights(L, newTimePoints, index) ==
    IF index < Len(L.sortedTimePoints) /\ index < Len(newTimePoints)
    THEN LET oldPoint == L.sortedTimePoints[index + 1]
             newPoint == newTimePoints[index + 1]
         IN  IF oldPoint.time.timestamp # newPoint.time.timestamp
             THEN [layer |-> L, points |-> newTimePoints, firstChangedPointIndex |-> index]
             ELSE syncCommonPrefixLosingWeights(
                      assignIndexToPointData(L, newPoint.pointData, index),
                      newTimePoints,
                      index + 1)
    ELSE [layer |-> L, points |-> newTimePoints, firstChangedPointIndex |-> -1]

RECURSIVE syncCommonPrefix(_, _, _)
\* the first loop of _replaceTimeScalePoints, from position index (0-based)
syncCommonPrefix(L, newTimePoints, index) ==
    IF index < Len(L.sortedTimePoints) /\ index < Len(newTimePoints)
    THEN LET oldPoint == L.sortedTimePoints[index + 1]
             newPoint == newTimePoints[index + 1]
         IN  IF oldPoint.time.timestamp # newPoint.time.timestamp
             THEN [layer |-> L, points |-> newTimePoints, firstChangedPointIndex |-> index]
             ELSE syncCommonPrefix(
                      assignIndexToPointData(L, newPoint.pointData, index),
                      [newTimePoints EXCEPT ![index + 1].timeWeight = oldPoint.timeWeight],
                      index + 1)
    ELSE [layer |-> L, points |-> newTimePoints, firstChangedPointIndex |-> -1]

\* a faulty variant: the first changed point is taken to follow the old points
nextAfterOldPoints(oldLength, newLength) == oldLength

\* line 565: the first changed point is the next after the common part
nextAfterCommonPart(oldLength, newLength) == Min(oldLength, newLength)

\* returns the layer and the index of the first changed point, or -1
_replaceTimeScalePoints(L, newTimePoints) ==
    LET synced == syncCommonPrefix(L, newTimePoints, 0)
        firstChangedPointIndex ==
            IF synced.firstChangedPointIndex = -1
               /\ Len(L.sortedTimePoints) # Len(newTimePoints)
            THEN nextAfterCommonPart(Len(L.sortedTimePoints), Len(newTimePoints))
            ELSE synced.firstChangedPointIndex
    IN  IF firstChangedPointIndex = -1
        THEN [layer |-> synced.layer, firstChangedPointIndex |-> -1]
        ELSE [layer |->
                 [assignIndexFrom(synced.layer, synced.points, firstChangedPointIndex)
                    EXCEPT !.sortedTimePoints =
                        fillWeightsForPoints(synced.points, firstChangedPointIndex)],
              firstChangedPointIndex |-> firstChangedPointIndex]

\* the points built from the timestamp map, sorted by timestamp
newTimeScalePointsOf(L) ==
    LET ts == Ascending(DOMAIN L.pointDataByTimePoint)
    IN  [i \in 1..Len(ts) |->
            [timeWeight |-> 0,
             time |-> L.timePointData[L.pointDataByTimePoint[ts[i]]].timePoint,
             pointData |-> L.pointDataByTimePoint[ts[i]]]]

_getBaseIndex(L) ==
    IF MapSize(L.seriesRowsBySeries) = 0
    THEN Nothing
    ELSE Some(MaxOf({0} \cup
            {L.plotRows[L.seriesRowsBySeries[s][Len(L.seriesRowsBySeries[s])]].index :
                s \in {x \in DOMAIN L.seriesRowsBySeries : Len(L.seriesRowsBySeries[x]) # 0}}))

\* the points as a response shows them
PointsOf(L) ==
    [i \in 1..Len(L.sortedTimePoints) |->
        [time |-> L.sortedTimePoints[i].time, timeWeight |-> L.sortedTimePoints[i].timeWeight]]

\* a faulty variant: the full response is built whether or not the time scale changed
_getFullUpdateResponse(L, updatedSeries, firstChangedPointIndex, info) ==
    [series |->
        [s \in (DOMAIN L.seriesRowsBySeries) \cup {updatedSeries} |->
            IF MapHas(L.seriesRowsBySeries, s)
            THEN [data |-> RowValues(L, L.seriesRowsBySeries[s]),
                  info |-> IF s = updatedSeries THEN info ELSE Nothing]
            ELSE [data |-> << >>, info |-> info]],
     timeScale |->
        [baseIndex |-> _getBaseIndex(L),
         points |-> PointsOf(L),
         firstChangedPointIndex |-> firstChangedPointIndex]]

\* a faulty variant: an updated series that has no row list any more is left out
_getUpdateResponseOfListedSeries(L, updatedSeries, firstChangedPointIndex, info) ==
    IF firstChangedPointIndex # -1
    THEN [series |->
            [s \in DOMAIN L.seriesRowsBySeries |->
                [data |-> RowValues(L, L.seriesRowsBySeries[s]),
                 info |-> IF s = updatedSeries THEN info ELSE Nothing]],
          timeScale |->
            [baseIndex |-> _getBaseIndex(L),
             points |-> PointsOf(L),
             firstChangedPointIndex |-> firstChangedPointIndex]]
    ELSE [series |->
            [s \in {updatedSeries} |->
                [data |-> IF MapHas(L.seriesRowsBySeries, updatedSeries)
                          THEN RowValues(L, L.seriesRowsBySeries[updatedSeries])
                          ELSE << >>,
                 info |-> info]],
          timeScale |-> [baseIndex |-> _getBaseIndex(L)]]

\* info: Nothing for undefined
_getUpdateResponse(L, updatedSeries, firstChangedPointIndex, info) ==
    IF firstChangedPointIndex # -1
    THEN [series |->
            [s \in (DOMAIN L.seriesRowsBySeries) \cup {updatedSeries} |->
                IF MapHas(L.seriesRowsBySeries, s)
                THEN [data |-> RowValues(L, L.seriesRowsBySeries[s]),
                      info |-> IF s = updatedSeries THEN info ELSE Nothing]
                ELSE [data |-> << >>, info |-> info]],
          timeScale |->
            [baseIndex |-> _getBaseIndex(L),
             points |-> PointsOf(L),
             firstChangedPointIndex |-> firstChangedPointIndex]]
    ELSE [series |->
            [s \in {updatedSeries} |->
                [data |-> IF MapHas(L.seriesRowsBySeries, updatedSeries)
                          THEN RowValues(L, L.seriesRowsBySeries[updatedSeries])
                          ELSE << >>,
                 info |-> info]],
          timeScale |-> [baseIndex |-> _getBaseIndex(L)]]

\* a faulty variant: only the last times are compared
seriesUpdateInfoByLastTime(seriesRows, prevSeriesRows) ==
    IF seriesRows # Nothing /\ prevSeriesRows # Nothing
       /\ Len(seriesRows[1]) # 0 /\ Len(prevSeriesRows[1]) # 0
    THEN LET rows == seriesRows[1]
             prev == prevSeriesRows[1]
         IN  Some([lastBarUpdatedOrNewBarsAddedToTheRight |->
                    rows[Len(rows)].time.timestamp >= prev[Len(prev)].time.timestamp])
    ELSE Nothing

\* seriesRows, prevSeriesRows: Nothing for undefined, Some(rows) otherwise
seriesUpdateInfo(seriesRows, prevSeriesRows) ==
    IF seriesRows # Nothing /\ prevSeriesRows # Nothing
       /\ Len(seriesRows[1]) # 0 /\ Len(prevSeriesRows[1]) # 0
    THEN LET rows == seriesRows[1]
             prev == prevSeriesRows[1]
         IN  Some([lastBarUpdatedOrNewBarsAddedToTheRight |->
                    rows[Len(rows)].time.timestamp >= prev[Len(prev)].time.timestamp
                    /\ rows[1].time.timestamp >= prev[1].time.timestamp])
    ELSE Nothing

-----------------------------------------------------------------------------
(* DataLayer.setSeriesData *)

\* lines 299-325: forget what the series contributed before
unbindSeries(L, series) ==
    IF MapHas(L.seriesRowsBySeries, series)
    THEN IF MapSize(L.seriesRowsBySeries) = 1
         THEN [layer |-> [L EXCEPT !.pointDataByTimePoint = EmptyMap],
               needCleanupPoints |-> FALSE,
               isTimeScaleAffected |-> TRUE]
         ELSE LET pointDatas == {L.sortedTimePoints[i].pointData : i \in 1..Len(L.sortedTimePoints)}
              IN  [layer |->
                      [L EXCEPT !.timePointData =
                          [pd \in DOMAIN L.timePointData |->
                              IF pd \in pointDatas
                              THEN [L.timePointData[pd] EXCEPT !.mapping = MapDelete(@, series)]
                              ELSE L.timePointData[pd]]],
                   needCleanupPoints |-> MapSize(L.pointDataByTimePoint) # 0,
                   isTimeScaleAffected |->
                      \E pd \in pointDatas : MapHas(L.timePointData[pd].mapping, series)]
    ELSE [layer |-> L,
          needCleanupPoints |-> MapSize(L.pointDataByTimePoint) # 0,
          isTimeScaleAffected |-> FALSE]

RECURSIVE ingest(_, _, _, _, _, _)
\* lines 346-367: extendedData.map(...), from item i; seriesRows collects the row ids
ingest(L, series, data, i, seriesRows, isTimeScaleAffected) ==
    IF i > Len(data)
    THEN [layer |-> L, seriesRows |-> seriesRows, isTimeScaleAffected |-> isTimeScaleAffected]
    ELSE LET item == data[i]
             time == timestampConverter(item.time)
             found == MapHas(L.pointDataByTimePoint, time.timestamp)
             L1 == IF found THEN L
                   ELSE [L EXCEPT
                           !.timePointData = Append(@, createEmptyTimePointData(time)),
                           !.pointDataByTimePoint =
                               MapSet(@, time.timestamp, Len(L.timePointData) + 1)]
             pd == L1.pointDataByTimePoint[time.timestamp]
             row == Len(L1.plotRows) + 1
             L2 == [L1 EXCEPT
                       !.plotRows = Append(@, createPlotRow(time, L1.timePointData[pd].index, item)),
                       !.timePointData[pd].mapping = MapSet(@, series, row)]
         IN  ingest(L2, series, data, i + 1, Append(seriesRows, row),
                    isTimeScaleAffected \/ ~found)

\* lines 299-325 without the branch for the only series: the series is
\* deleted from the mapping of every point
unbindSeriesFromEveryPoint(L, series) ==
    IF MapHas(L.seriesRowsBySeries, series)
    THEN LET pointDatas == {L.sortedTimePoints[i].pointData : i \in 1..Len(L.sortedTimePoints)}
         IN  [layer |->
                 [L EXCEPT !.timePointData =
                     [pd \in DOMAIN L.timePointData |->
                         IF pd \in pointDatas
                         THEN [L.timePointData[pd] EXCEPT !.mapping = MapDelete(@, series)]
                         ELSE L.timePointData[pd]]],
              needCleanupPoints |-> MapSize(L.pointDataByTimePoint) # 0,
              isTimeScaleAffected |->
                 \E pd \in pointDatas : MapHas(L.timePointData[pd].mapping, series)]
    ELSE [layer |-> L,
          needCleanupPoints |-> MapSize(L.pointDataByTimePoint) # 0,
          isTimeScaleAffected |-> FALSE]

\* setSeriesData after lines 299-325 left unbound
setSeriesDataFrom(L, series, data, unbound) ==
    LET prevSeriesRows == IF MapHas(L.seriesRowsBySeries, series)
                          THEN Some(RowValues(L, L.seriesRowsBySeries[series]))
                          ELSE Nothing
        ingested == ingest(unbound.layer, series, data, 1, << >>, unbound.isTimeScaleAffected)
        cleaned == IF unbound.needCleanupPoints
                   THEN _cleanupPointsData(ingested.layer)
                   ELSE ingested.layer
        bound == _setRowsToSeries(cleaned, series, ingested.seriesRows)
        replaced == IF ingested.isTimeScaleAffected
                    THEN _replaceTimeScalePoints(bound, newTimeScalePointsOf(bound))
                    ELSE [layer |-> bound, firstChangedPointIndex |-> -1]
        final == replaced.layer
    IN  [layer |-> final,
         response |->
            _getUpdateResponse(final, series, replaced.firstChangedPointIndex,
                seriesUpdateInfo(
                    IF MapHas(final.seriesRowsBySeries, series)
                    THEN Some(RowValues(final, final.seriesRowsBySeries[series]))
                    ELSE Nothing,
                    prevSeriesRows))]

setSeriesData(L, series, data) == setSeriesDataFrom(L, series, data, unbindSeries(L, series))

\* setSeriesData as it would run without the branch for the only series
setSeriesDataByGeneralPath(L, series, data) ==
    setSeriesDataFrom(L, series, data, unbindSeriesFromEveryPoint(L, series))

removeSeries(L, series) == setSeriesData(L, series, << >>)

-----------------------------------------------------------------------------
(* DataLayer.updateSeriesData *)

\* a faulty variant: the time is compared with the last row of the list, not the last time
isOutOfOrderByRows(L, series, time) ==
    /\ MapHas(L.seriesRowsBySeries, series)
    /\ Len(L.seriesRowsBySeries[series]) # 0
    /\ time.timestamp <
          L.plotRows[L.seriesRowsBySeries[series][Len(L.seriesRowsBySeries[series])]].time.timestamp

\* lines 427-430: the order check
isOutOfOrder(L, series, time) ==
    MapHas(L.seriesLastTimePoint, series)
    /\ time.timestamp < L.seriesLastTimePoint[series].timestamp

updateSeriesData(L, series, data) ==
    LET time == timestampConverter(data.time)
    IN  IF isOutOfOrder(L, series, time)
        THEN [layer |-> L, response |-> [error |-> "Cannot update oldest data"]]
        ELSE
        LET affectsTimeScale == ~MapHas(L.pointDataByTimePoint, time.timestamp)
            L1 == IF affectsTimeScale
                  THEN [L EXCEPT
                          !.timePointData = Append(@, createEmptyTimePointData(time)),
                          !.pointDataByTimePoint =
                              MapSet(@, time.timestamp, Len(L.timePointData) + 1)]
                  ELSE L
            pointDataAtTime == L1.pointDataByTimePoint[time.timestamp]
            plotRow == Len(L1.plotRows) + 1
            L2 == [L1 EXCEPT
                      !.plotRows = Append(@,
                          createPlotRow(time, L1.timePointData[pointDataAtTime].index, data)),
                      !.timePointData[pointDataAtTime].mapping = MapSet(@, series, plotRow)]
            L3 == _updateLastSeriesRow(L2, series, plotRow)
            info == Some([lastBarUpdatedOrNewBarsAddedToTheRight |->
                            isSeriesPlotRow(L3.plotRows[plotRow])])
        IN  IF ~affectsTimeScale
            THEN [layer |-> L3, response |-> _getUpdateResponse(L3, series, -1, info)]
            ELSE
            LET newPoint == [timeWeight |-> 0,
                             time |-> L3.timePointData[pointDataAtTime].timePoint,
                             pointData |-> pointDataAtTime]
                insertIndex == lowerbound(L3.sortedTimePoints, newPoint.time.timestamp)
                spliced == SpliceIn(L3.sortedTimePoints, insertIndex, newPoint)
                L4 == assignIndexFrom(L3, spliced, insertIndex)
                L5 == [L4 EXCEPT !.sortedTimePoints = fillWeightsForPoints(spliced, insertIndex)]
            IN  [layer |-> L5, response |-> _getUpdateResponse(L5, series, insertIndex, info)]

-----------------------------------------------------------------------------
(* Object identity.  Two heaps that differ only in the ids given to the     *)
(* objects are the same program state, and an object nothing refers to is   *)
(* garbage.  Collect keeps the reachable objects and numbers them in a      *)
(* fixed order: the TimePointData of the timestamp map by timestamp, then   *)
(* those only the sorted array holds; the rows of these mappings by series, *)
(* then the rows only a per-series list holds.                              *)

RECURSIVE AppendAllNew(_, _)
AppendAllNew(acc, xs) ==
    IF Len(xs) = 0 THEN acc
    ELSE AppendAllNew(IF Head(xs) \in Range(acc) THEN acc ELSE Append(acc, Head(xs)), Tail(xs))

RECURSIVE Flatten(_)
Flatten(seqs) == IF Len(seqs) = 0 THEN << >> ELSE Head(seqs) \o Flatten(Tail(seqs))

PositionIn(seq, x) == CHOOSE i \in 1..Len(seq) : seq[i] = x

\* the values of a map in ascending key order
ValuesByKey(m) == LET ks == Ascending(DOMAIN m) IN [i \in 1..Len(ks) |-> m[ks[i]]]

Collect(L) ==
    LET pdOrder == AppendAllNew(ValuesByKey(L.pointDataByTimePoint),
                        [i \in 1..Len(L.sortedTimePoints) |-> L.sortedTimePoints[i].pointData])
        rowOrder == AppendAllNew(
                        AppendAllNew(<< >>,
                            Flatten([i \in 1..Len(pdOrder) |->
                                        ValuesByKey(L.timePointData[pdOrder[i]].mapping)])),
                        Flatten(ValuesByKey(L.seriesRowsBySeries)))
    IN  [timePointData |->
            [i \in 1..Len(pdOrder) |->
                [L.timePointData[pdOrder[i]] EXCEPT
                    !.mapping = [s \in DOMAIN @ |-> PositionIn(rowOrder, @[s])]]],
         plotRows |-> [i \in 1..Len(rowOrder) |-> L.plotRows[rowOrder[i]]],
         pointDataByTimePoint |->
            [t \in DOMAIN L.pointDataByTimePoint |->
                PositionIn(pdOrder, L.pointDataByTimePoint[t])],
         seriesRowsBySeries |->
            [s \in DOMAIN L.seriesRowsBySeries |->
                [i \in 1..Len(L.seriesRowsBySeries[s]) |->
                    PositionIn(rowOrder, L.seriesRowsBySeries[s][i])]],
         seriesLastTimePoint |-> L.seriesLastTimePoint,
         sortedTimePoints |->
            [i \in 1..Len(L.sortedTimePoints) |->
                [L.sortedTimePoints[i] EXCEPT !.pointData = PositionIn(pdOrder, @)]]]

-----------------------------------------------------------------------------
(* The public operations as steps *)

\* a series holds no data: it has no row list, no last time, and no row in any mapping
HoldsNoData(L, series) ==
    /\ ~MapHas(L.seriesRowsBySeries, series)
    /\ ~MapHas(L.seriesLastTimePoint, series)
    /\ \A pd \in DOMAIN L.timePointData : ~MapHas(L.timePointData[pd].mapping, series)

Becomes(L) ==
    /\ timePointData' = L.timePointData
    /\ plotRows' = L.plotRows
    /\ pointDataByTimePoint' = L.pointDataByTimePoint
    /\ seriesRowsBySeries' = L.seriesRowsBySeries
    /\ seriesLastTimePoint' = L.seriesLastTimePoint
    /\ sortedTimePoints' = L.sortedTimePoints

\* no draw pass is running; the fields keep what the last pass left
NoPass ==
    [pc |-> "idle", mask |-> Nothing, caller |-> "none", since |-> 0, outcome |-> "none",
     aliased |-> FALSE]

\* the fields of a ChartWidget as their initialisers leave them
NewChartWidget ==
    /\ invalidateMask = Nothing
    /\ drawPlanned = FALSE
    /\ frameRequests = 0
    /\ drawRafId = 0
    /\ destroyed = FALSE
    /\ pass = NoPass
    /\ drawLog = << >>
    /\ submitted = << >>

\* no mask is held apart from the widget's, and no delegate is in use
NoMasks == heldMasks = << >> /\ recorded = << >>

NoDelegate == listeners = << >> /\ firing = << >> /\ fired = << >>

Init ==
    /\ timePointData = EmptyLayer.timePointData
    /\ plotRows = EmptyLayer.plotRows
    /\ pointDataByTimePoint = EmptyLayer.pointDataByTimePoint
    /\ seriesRowsBySeries = EmptyLayer.seriesRowsBySeries
    /\ seriesLastTimePoint = EmptyLayer.seriesLastTimePoint
    /\ sortedTimePoints = EmptyLayer.sortedTimePoints
    /\ lastCall = [op |-> "new"]
    /\ response = [series |-> EmptyMap, timeScale |-> [baseIndex |-> Nothing]]
    /\ history = Nothing
    /\ calls = 0
    /\ heldTimes = EmptyMap
    /\ heldWhitespace = EmptyMap
    /\ items = << >>
    /\ madeRows = << >>
    /\ NewChartWidget
    /\ NoMasks
    /\ NoDelegate

\* the state a call leaves: the layer, what it returned, and the bookkeeping
Returns(result, call, before, held) ==
    /\ Becomes(Collect(result.layer))
    /\ response' = result.response
    /\ lastCall' = call
    /\ history' = before
    /\ heldTimes' = held

CallSet(series, data) ==
    Returns(setSeriesData(Layer, series, data),
            [op |-> "setSeriesData", series |-> series, data |-> data],
            IF HoldsNoData(Layer, series) /\ Len(data) # 0 THEN Some(Layer) ELSE Nothing,
            IF Len(data) # 0
            THEN MapSet(heldTimes, series, {data[i].time : i \in 1..Len(data)})
            ELSE MapDelete(heldTimes, series))
    /\ heldWhitespace' =
          IF Len(data) # 0
          THEN MapSet(heldWhitespace, series,
                      {data[i].time : i \in {j \in 1..Len(data) : isWhitespaceData(data[j])}})
          ELSE MapDelete(heldWhitespace, series)

\* a call of updateSeriesData; before: what the history keeps of the layer before it
CallUpdateFrom(series, data, before) ==
    Returns(updateSeriesData(Layer, series, data),
            [op |-> "updateSeriesData", series |-> series, data |-> data],
            before,
            IF isOutOfOrder(Layer, series, timestampConverter(data.time))
            THEN heldTimes
            ELSE MapSet(heldTimes, series,
                        (IF MapHas(heldTimes, series) THEN heldTimes[series] ELSE {})
                            \cup {data.time}))
    /\ heldWhitespace' =
          IF isOutOfOrder(Layer, series, timestampConverter(data.time))
          THEN heldWhitespace
          ELSE LET had == IF MapHas(heldWhitespace, series) THEN heldWhitespace[series] ELSE {}
               IN  MapSet(heldWhitespace, series,
                          IF isWhitespaceData(data) THEN had \cup {data.time}
                          ELSE had \ {data.time})

CallUpdate(series, data) == CallUpdateFrom(series, data, Nothing)

CallRemove(series) ==
    Returns(removeSeries(Layer, series),
            [op |-> "removeSeries", series |-> series],
            Nothing,
            MapDelete(heldTimes, series))
    /\ heldWhitespace' = MapDelete(heldWhitespace, series)

SetSeriesData(series, data) == CallSet(series, data) /\ UNCHANGED <<calls, items, madeRows, widgetVars, maskVars,
                   delegateVars>>

UpdateSeriesData(series, data) ==
    CallUpdate(series, data) /\ UNCHANGED <<calls, items, madeRows, widgetVars, maskVars,
                   delegateVars>>

RemoveSeries(series) == CallRemove(series) /\ UNCHANGED <<calls, items, madeRows, widgetVars, maskVars,
                   delegateVars>>

\* any number of calls on the series 1..NumSeries
Next ==
    \/ \E series \in Series, data \in DataSets : SetSeriesData(series, data)
    \/ \E series \in Series, data \in Items : UpdateSeriesData(series, data)
    \/ \E series \in Series : RemoveSeries(series)

Spec == Init /\ [][Next]_vars

-----------------------------------------------------------------------------
(* A chart with one more series, fed value items only, for runs of at most  *)
(* MaxCalls calls                                                           *)

MoreSeries == 1..(NumSeries + 1)

ValueItems == {item \in Items : ~isWhitespaceData(item)}

ValueDataSets == {data \in DataSets : \A i \in 1..Len(data) : ~isWhitespaceData(data[i])}

Counted == calls < MaxCalls /\ calls' = calls + 1

SetSeriesDataCounted(series, data) ==
    Counted /\ CallSet(series, data) /\ UNCHANGED <<items, madeRows, widgetVars, maskVars,
                   delegateVars>>

UpdateSeriesDataCounted(series, data) ==
    Counted /\ CallUpdate(series, data) /\ UNCHANGED <<items, madeRows, widgetVars, maskVars,
                   delegateVars>>

RemoveSeriesCounted(series) ==
    Counted /\ CallRemove(series) /\ UNCHANGED <<items, madeRows, widgetVars, maskVars,
                   delegateVars>>

NextCounted ==
    \/ \E series \in MoreSeries, data \in ValueDataSets : SetSeriesDataCounted(series, data)
    \/ \E series \in MoreSeries, data \in ValueItems : UpdateSeriesDataCounted(series, data)
    \/ \E series \in MoreSeries : RemoveSeriesCounted(series)

SpecCounted == Init /\ [][NextCounted]_vars

-----------------------------------------------------------------------------
(* A chart whose items span one more day, fed value items only, for runs of *)
(* at most MaxCalls calls                                                   *)

LongTimes == 1..(MaxTime + 1)

LongValueItems == {[time |-> t, value |-> v] : t \in LongTimes, v \in Values}

\* strictly ascending data sets of value items over the given times
RECURSIVE ValueDataSetsOver(_)
ValueDataSetsOver(ts) ==
    IF ts = << >> THEN {<< >>}
    ELSE LET rest == ValueDataSetsOver(Tail(ts))
         IN rest \cup {<<i>> \o d : i \in {x \in LongValueItems : x.time = Head(ts)}, d \in rest}

LongValueDataSets == ValueDataSetsOver(Ascending(LongTimes))

NextLong ==
    \/ \E series \in Series, data \in LongValueDataSets : SetSeriesDataCounted(series, data)
    \/ \E series \in Series, data \in LongValueItems : UpdateSeriesDataCounted(series, data)
    \/ \E series \in Series : RemoveSeriesCounted(series)

SpecLong == Init /\ [][NextLong]_vars

-----------------------------------------------------------------------------
(* A chart whose items take one more value, whitespace items included, for  *)
(* runs of fewer than MaxCalls calls                                        *)

WideValues == 1..(MaxValue + 1)

WideItems == [time : Times] \cup [time : Times, value : WideValues]

\* strictly ascending data sets of these items over the given times
RECURSIVE WideDataSetsOver(_)
WideDataSetsOver(ts) ==
    IF ts = << >> THEN {<< >>}
    ELSE LET rest == WideDataSetsOver(Tail(ts))
         IN rest \cup {<<i>> \o d : i \in {x \in WideItems : x.time = Head(ts)}, d \in rest}

\* a counted call of updateSeriesData, the layer before it kept in the history
UpdateSeriesDataFrom(series, data) ==
    Counted /\ CallUpdateFrom(series, data, Some(Layer))
            /\ UNCHANGED <<items, madeRows, widgetVars, maskVars, delegateVars>>

\* one call fewer than MaxCalls
NextWide ==
    \/ \E series \in Series, data \in WideDataSetsOver(Ascending(Times)) :
           calls + 1 < MaxCalls /\ SetSeriesDataCounted(series, data)
    \/ \E series \in Series, data \in WideItems :
           calls + 1 < MaxCalls /\ UpdateSeriesDataFrom(series, data)
    \/ \E series \in Series : calls + 1 < MaxCalls /\ RemoveSeriesCounted(series)

SpecWide == Init /\ [][NextWide]_vars

-----------------------------------------------------------------------------
(* Item objects the caller owns.  A Time is a UTCTimestamp number, a         *)
(* 'yyyy-mm-dd' string or a BusinessDay object; the calls write to the item  *)
(* objects they are given (originalTime, time).  One series, value items.    *)

\* The caller owns the item objects 1..NumItems.
NumItems == 2

ItemIds == 1..NumItems

\* a number n is [number |-> n], a string 'yyyy-mm-dd' is [string |-> <<yyyy, mm, dd>>],
\* a BusinessDay is the object [year, month, day] itself
isNumber(value) == "number" \in DOMAIN value

isString(value) == "string" \in DOMAIN value

isBusinessDay(time) == ~isNumber(time) /\ ~isString(time)

isUTCTimestamp(time) == isNumber(time)

\* the ways a caller can write the day of model timestamp t
TimeValuesOf(t) ==
    {[number |-> t],
     [string |-> <<CalendarOf(t).year, CalendarOf(t).month, CalendarOf(t).day>>],
     CalendarOf(t)}

TimeValues == UNION {TimeValuesOf(t) : t \in Times}

\* new Date(value), then getUTCFullYear / getUTCMonth + 1 / getUTCDate
stringToBusinessDay(value) ==
    [year |-> value.string[1], month |-> value.string[2], day |-> value.string[3]]

\* Date.UTC(year, month - 1, day) / 1000, in model timestamps
businessDayConverter(time) ==
    [timestamp |-> CHOOSE t \in Times : CalendarOf(t) = time, businessDay |-> time]

\* the converter selectTimeConverter picks from the first item, applied to time
convertWith(firstTime, time) ==
    IF isBusinessDay(firstTime)
    THEN businessDayConverter(time)
    ELSE timestampConverter(time.number)

saveOriginalTime(data) ==
    IF "originalTime" \in DOMAIN data
    THEN data
    ELSE [x \in (DOMAIN data) \cup {"originalTime"} |->
            IF x = "originalTime" THEN data.time ELSE data[x]]

convertStringToBusinessDay(value) ==
    IF isString(value.time)
    THEN [value EXCEPT !.time = stringToBusinessDay(@)]
    ELSE value

\* what lines 421-423 (332-337 for each item of a list) leave in the caller's object
Processed(item) == convertStringToBusinessDay(saveOriginalTime(item))

\* the one series the caller feeds its objects to
OwnedSeries == {Min(1, NumSeries)}

\* the caller's lists of item objects: no object twice
OwnedLists ==
    {<< >>} \cup {<<o>> : o \in ItemIds}
            \cup {os \in {<<o1, o2>> : o1 \in ItemIds, o2 \in ItemIds} : os[1] # os[2]}

\* the list passes the converter and the order check: after the strings are converted the
\* times are all numbers or all BusinessDay objects, strictly ascending
IsAcceptedList(os) ==
    LET processed == [i \in 1..Len(os) |-> Processed(items[os[i]])]
    IN  /\ \A i \in 1..Len(os) : isNumber(processed[i].time) <=> isNumber(processed[1].time)
        /\ \A i, j \in 1..Len(os) :
              i < j => convertWith(processed[1].time, processed[i].time).timestamp
                         < convertWith(processed[1].time, processed[j].time).timestamp

InitOwnedItems ==
    /\ timePointData = EmptyLayer.timePointData
    /\ plotRows = EmptyLayer.plotRows
    /\ pointDataByTimePoint = EmptyLayer.pointDataByTimePoint
    /\ seriesRowsBySeries = EmptyLayer.seriesRowsBySeries
    /\ seriesLastTimePoint = EmptyLayer.seriesLastTimePoint
    /\ sortedTimePoints = EmptyLayer.sortedTimePoints
    /\ lastCall = [op |-> "new"]
    /\ response = [series |-> EmptyMap, timeScale |-> [baseIndex |-> Nothing]]
    /\ history = Nothing
    /\ calls = 0
    /\ heldTimes = EmptyMap
    /\ heldWhitespace = EmptyMap
    /\ items \in [ItemIds -> {[time |-> tv, value |-> v] : tv \in TimeValues, v \in Values}]
    /\ madeRows = << >>
    /\ NewChartWidget
    /\ NoMasks
    /\ NoDelegate

\* setSeriesData(series, data) where data lists the caller's objects os
SetOwnedItems(series, os) ==
    /\ IsAcceptedList(os)
    /\ LET processed == [i \in 1..Len(os) |-> Processed(items[os[i]])]
           data == [i \in 1..Len(os) |->
                      [time |-> convertWith(processed[1].time, processed[i].time).timestamp,
                       value |-> processed[i].value]]
       IN  /\ Counted
           /\ CallSet(series, data)
           /\ items' = [o \in ItemIds |->
                          IF o \in Range(os) THEN Processed(items[o]) ELSE items[o]]
           /\ madeRows' = [i \in 1..Len(os) |->
                            [originalTime |-> processed[i].originalTime,
                             given |-> items[os[i]].time]]
           /\ UNCHANGED <<widgetVars, maskVars,
                   delegateVars>>

\* updateSeriesData(series, data) where data is the caller's object o
UpdateOwnedItem(series, o) ==
    LET processed == Processed(items[o])
        time == convertWith(processed.time, processed.time)
        data == [time |-> time.timestamp, value |-> processed.value]
    IN  /\ Counted
        /\ CallUpdate(series, data)
        /\ items' = [items EXCEPT ![o] = processed]
        /\ madeRows' = IF isOutOfOrder(Layer, series, time)
                       THEN << >>
                       ELSE <<[originalTime |-> processed.originalTime,
                               given |-> items[o].time]>>
        /\ UNCHANGED <<widgetVars, maskVars,
                   delegateVars>>

\* the caller writes another time into an object it owns
CallerSetsTime(o, tv) ==
    /\ tv # items[o].time
    /\ Counted
    /\ items' = [items EXCEPT ![o].time = tv]
    /\ UNCHANGED <<timePointData, plotRows, pointDataByTimePoint, seriesRowsBySeries,
                   seriesLastTimePoint, sortedTimePoints, lastCall, response, history,
                   heldTimes, heldWhitespace, madeRows, widgetVars, maskVars,
                   delegateVars>>

NextOwnedItems ==
    \/ \E series \in OwnedSeries, os \in OwnedLists : SetOwnedItems(series, os)
    \/ \E series \in OwnedSeries, o \in ItemIds : UpdateOwnedItem(series, o)
    \/ \E o \in ItemIds, tv \in TimeValues : CallerSetsTime(o, tv)

SpecOwnedItems == InitOwnedItems /\ [][NextOwnedItems]_vars

-----------------------------------------------------------------------------
(* setSeriesData on lists whose times are of any variant.  The date parser   *)
(* and the converter selected from the first item throw on a time they do    *)
(* not take, after the call has already written to the layer.               *)

\* a string new Date cannot parse
InvalidDateString == [string |-> <<0, 0, 0>>]

\* isNaN(new Date(value).getTime())
isInvalidDate(value) == \A t \in Times : value \notin TimeValuesOf(t)

\* the model timestamp of the day a time names
DayOf(time) == CHOOSE t \in Times : time \in TimeValuesOf(t)

TimedItems ==
    {[time |-> time, value |-> v] : time \in TimeValues \cup {InvalidDateString}, v \in Values}

\* lists of at most two items, the days ascending where both name one
TimedDataSets ==
    {<< >>} \cup {<<item>> : item \in TimedItems}
            \cup {data \in {<<first, second>> : first \in TimedItems, second \in TimedItems} :
                     ~isInvalidDate(data[1].time) /\ ~isInvalidDate(data[2].time)
                        => DayOf(data[1].time) < DayOf(data[2].time)}

\* businessDayConverter and timestampConverter: the one selected from firstTime throws
converterThrows(firstTime, time) ==
    IF isBusinessDay(firstTime) THEN ~isBusinessDay(time) ELSE ~isUTCTimestamp(time)

\* the item as extendedData.map reads it: its time is what timeConverter returns
timeConverted(firstTime, item) ==
    [item EXCEPT !.time = convertWith(firstTime, @).timestamp]

\* setSeriesData(series, data) on times of any variant: lines 299-325 run,
\* then convertStringsToBusinessDays throws at the first string that is no
\* date, or timeConverter throws at the first item of another variant than
\* the first, the items before it being in the map by then
setSeriesDataOfTimes(L, series, data) ==
    LET unbound == unbindSeries(L, series)
        unparsed == {i \in 1..Len(data) : isString(data[i].time) /\ isInvalidDate(data[i].time)}
        processed == [i \in 1..Len(data) |-> convertStringToBusinessDay(data[i])]
        thrown == {i \in 1..Len(data) : converterThrows(processed[1].time, processed[i].time)}
        upTo(n) == [i \in 1..n |-> timeConverted(processed[1].time, processed[i])]
        firstThrown == CHOOSE i \in thrown : \A j \in thrown : i <= j
    IN  IF unparsed # {}
        THEN [layer |-> unbound.layer, response |-> [error |-> "Invalid date string"]]
        ELSE IF thrown # {}
        THEN [layer |-> ingest(unbound.layer, series, upTo(firstThrown - 1), 1, << >>,
                               unbound.isTimeScaleAffected).layer,
              response |-> [error |-> "time must be of the type of the first time"]]
        ELSE setSeriesData(L, series, upTo(Len(data)))

\* a counted call of setSeriesData with such a list
SetSeriesDataOfTimes(series, data) ==
    LET result == setSeriesDataOfTimes(Layer, series, data)
        raised == "error" \in DOMAIN result.response
    IN  /\ Counted
        /\ Returns(result, [op |-> "setSeriesData", series |-> series, data |-> data], Nothing,
                   IF raised THEN heldTimes
                   ELSE IF Len(data) # 0
                   THEN MapSet(heldTimes, series, {DayOf(data[i].time) : i \in 1..Len(data)})
                   ELSE MapDelete(heldTimes, series))
        /\ heldWhitespace' = IF raised THEN heldWhitespace
                             ELSE IF Len(data) # 0 THEN MapSet(heldWhitespace, series, {})
                             ELSE MapDelete(heldWhitespace, series)
        /\ UNCHANGED <<items, madeRows, widgetVars, maskVars, delegateVars>>

NextOfTimes == \E series \in Series, data \in TimedDataSets : SetSeriesDataOfTimes(series, data)

SpecOfTimes == Init /\ [][NextOfTimes]_vars

-----------------------------------------------------------------------------
(* model/invalidate-mask.ts.  A mask is a value; a method that mutates the   *)
(* mask is a function to the mask it leaves.  Each time-scale invalidation   *)
(* carries the number of the invalidate call that enqueued it, and each mask *)
(* the numbers of the calls merged into it; the code does not read them.     *)

NumPanes == 1
MaxInvalidates == 3

Panes == 0..(NumPanes - 1)

\* const enum InvalidationLevel
None == 0

Cursor == 1

Light == 2

Full == 3

InvalidationLevel == {None, Cursor, Light, Full}

\* a faulty variant: the new pane invalidation replaces the one before
replacePaneInvalidation(beforeValue, newValue) == newValue

\* an absent autoScale is read for its truth only, so undefined is FALSE
mergePaneInvalidation(beforeValue, newValue) ==
    IF beforeValue = Nothing
    THEN newValue
    ELSE [level |-> Max(beforeValue[1].level, newValue.level),
          autoScale |-> beforeValue[1].autoScale \/ newValue.autoScale]

\* new InvalidateMask(globalLevel)
InvalidateMask(globalLevel) ==
    [globalLevel |-> globalLevel, invalidatedPanes |-> EmptyMap,
     timeScaleInvalidations |-> << >>, from |-> {}]

invalidatePane(mask, paneIndex, invalidation) ==
    LET prevValue == IF MapHas(mask.invalidatedPanes, paneIndex)
                     THEN Some(mask.invalidatedPanes[paneIndex])
                     ELSE Nothing
        newValue == mergePaneInvalidation(prevValue, invalidation)
    IN  [mask EXCEPT !.invalidatedPanes = MapSet(@, paneIndex, newValue)]

fullInvalidation(mask) == mask.globalLevel

invalidateForPane(mask, paneIndex) ==
    IF ~MapHas(mask.invalidatedPanes, paneIndex)
    THEN [level |-> mask.globalLevel, autoScale |-> FALSE]
    ELSE [level |-> Max(mask.globalLevel, mask.invalidatedPanes[paneIndex].level),
          autoScale |-> mask.invalidatedPanes[paneIndex].autoScale]

setFitContent(mask, call) ==
    [mask EXCEPT !.timeScaleInvalidations = <<[type |-> "FitContent", call |-> call]>>]

applyRange(mask, range, call) ==
    [mask EXCEPT !.timeScaleInvalidations =
                     <<[type |-> "ApplyRange", value |-> range, call |-> call]>>]

resetTimeScale(mask, call) ==
    [mask EXCEPT !.timeScaleInvalidations = <<[type |-> "Reset", call |-> call]>>]

\* a faulty variant: setBarSpacing replaces the list as the dominating setters do
setBarSpacingReplacing(mask, barSpacing, call) ==
    [mask EXCEPT !.timeScaleInvalidations =
                     <<[type |-> "ApplyBarSpacing", value |-> barSpacing, call |-> call]>>]

setBarSpacing(mask, barSpacing, call) ==
    [mask EXCEPT !.timeScaleInvalidations =
                     Append(@, [type |-> "ApplyBarSpacing", value |-> barSpacing, call |-> call])]

setRightOffset(mask, offset, call) ==
    [mask EXCEPT !.timeScaleInvalidations =
                     Append(@, [type |-> "ApplyRightOffset", value |-> offset, call |-> call])]

timeScaleInvalidations(mask) == mask.timeScaleInvalidations

\* InvalidateMask._applyTimeScaleInvalidation
applyTimeScaleInvalidationToMask(mask, invalidation) ==
    CASE invalidation.type = "FitContent" -> setFitContent(mask, invalidation.call)
      [] invalidation.type = "ApplyRange" -> applyRange(mask, invalidation.value, invalidation.call)
      [] invalidation.type = "ApplyBarSpacing" ->
             setBarSpacing(mask, invalidation.value, invalidation.call)
      [] invalidation.type = "ApplyRightOffset" ->
             setRightOffset(mask, invalidation.value, invalidation.call)
      [] invalidation.type = "Reset" -> resetTimeScale(mask, invalidation.call)

\* a faulty variant: the other mask's invalidations are all appended
replayWithoutDominance(mask, list) ==
    [mask EXCEPT !.timeScaleInvalidations = @ \o list]

\* the loop of merge over the other mask's time-scale invalidations
RECURSIVE replayTimeScaleInvalidations(_, _)
replayTimeScaleInvalidations(mask, list) ==
    IF list = << >>
    THEN mask
    ELSE replayTimeScaleInvalidations(applyTimeScaleInvalidationToMask(mask, Head(list)),
                                      Tail(list))

\* the merge that hands the masks over in the other order
mergeIntoOther(this, other) ==
    LET replayed == replayTimeScaleInvalidations(other, this.timeScaleInvalidations)
    IN  [globalLevel |-> Max(this.globalLevel, other.globalLevel),
         invalidatedPanes |->
             [i \in DOMAIN this.invalidatedPanes \cup DOMAIN other.invalidatedPanes |->
                 IF ~MapHas(other.invalidatedPanes, i) THEN this.invalidatedPanes[i]
                 ELSE IF ~MapHas(this.invalidatedPanes, i) THEN other.invalidatedPanes[i]
                 ELSE mergePaneInvalidation(Some(this.invalidatedPanes[i]),
                                            other.invalidatedPanes[i])],
         timeScaleInvalidations |-> replayed.timeScaleInvalidations,
         from |-> this.from \cup other.from]

\* a faulty variant: the merge keeps the global level of this mask
mergeKeepingLevel(this, other) ==
    [mergeIntoOther(other, this) EXCEPT !.globalLevel = this.globalLevel]

\* this.merge(other), for two different mask objects
merge(this, other) ==
    LET replayed == replayTimeScaleInvalidations(this, other.timeScaleInvalidations)
    IN  [globalLevel |-> Max(this.globalLevel, other.globalLevel),
         invalidatedPanes |->
             [i \in DOMAIN this.invalidatedPanes \cup DOMAIN other.invalidatedPanes |->
                 IF ~MapHas(other.invalidatedPanes, i) THEN this.invalidatedPanes[i]
                 ELSE IF ~MapHas(this.invalidatedPanes, i) THEN other.invalidatedPanes[i]
                 ELSE mergePaneInvalidation(Some(this.invalidatedPanes[i]),
                                            other.invalidatedPanes[i])],
         timeScaleInvalidations |-> replayed.timeScaleInvalidations,
         from |-> this.from \cup other.from]

\* mask.merge(mask): the loop runs over the array it started on.  A replacing
\* invalidation at its head makes the mask a new array, which the remaining
\* ones are pushed to, and the loop ends with the list it began with; an
\* appended one at its head is pushed to the array the loop runs over, and
\* the loop never ends.
mergeWithItselfDiverges(mask) ==
    /\ mask.timeScaleInvalidations # << >>
    /\ mask.timeScaleInvalidations[1].type \in {"ApplyBarSpacing", "ApplyRightOffset"}

mergeWithItself(mask) == mask

-----------------------------------------------------------------------------
(* ChartWidget: the paint scheduler.  JavaScript runs one callback at a      *)
(* time: a frame callback or a takeScreenshot starts only when no draw pass  *)
(* is running, while invalidate is also called from inside a running pass,   *)
(* by what the pass calls on the model and the widgets.  The pass is cut     *)
(* where such a call changes what the pass does next.                        *)

\* the masks a caller builds for its call-th invalidate: a level alone, a
\* level and a pane to auto-scale, Cursor and a pane at Light, or Light and
\* one time-scale setter
PaneInvalidations == {[level |-> None, autoScale |-> TRUE]}

LeveledMask(level, call) == [InvalidateMask(level) EXCEPT !.from = {call}]

PaneMasks(call) ==
    {invalidatePane(LeveledMask(level, call), paneIndex, invalidation) :
        level \in {Light, Full}, paneIndex \in Panes, invalidation \in PaneInvalidations}
    \cup {invalidatePane(LeveledMask(Cursor, call), paneIndex,
                         [level |-> Light, autoScale |-> FALSE]) : paneIndex \in Panes}

TimeScaleMasks(call) ==
    LET mask == LeveledMask(Light, call)
    IN  {setFitContent(mask, call), resetTimeScale(mask, call)}
        \cup {applyRange(mask, range, call) : range \in Values}
        \cup {setBarSpacing(mask, barSpacing, call) : barSpacing \in Values}
        \cup {setRightOffset(mask, offset, call) : offset \in Values}

Masks(call) ==
    {LeveledMask(level, call) : level \in {None, Cursor, Light, Full}}
    \cup PaneMasks(call) \cup TimeScaleMasks(call)

\* what a pass does, as entries of drawLog
_updateGui == <<[kind |-> "updateGui"]>>

_applyMomentaryAutoScale(mask) ==
    LET scaled(i) == invalidateForPane(mask, i).autoScale
        panes == SelectSeq(Ascending(Panes), scaled)
    IN  [k \in 1..Len(panes) |-> [kind |-> "momentaryAutoScale", pane |-> panes[k]]]

_applyTimeScaleInvalidations(mask) ==
    LET list == timeScaleInvalidations(mask)
    IN  [k \in 1..Len(list) |-> [kind |-> "timeScale", invalidation |-> list[k]]]

updateAxisWidgets == <<[kind |-> "updateAxisWidgets"]>>

\* a faulty variant: every pane is painted with the global level of the mask
paintAtGlobalLevel(mask) ==
    LET panes == Ascending(Panes)
    IN  [k \in 1..Len(panes) |->
            [kind |-> "paintPane", pane |-> panes[k], level |-> fullInvalidation(mask)]]
        \o <<[kind |-> "paintTimeAxis", level |-> fullInvalidation(mask)]>>

\* ChartWidget.paint, the time scale being visible
paint(mask) ==
    LET panes == Ascending(Panes)
    IN  [k \in 1..Len(panes) |->
            [kind |-> "paintPane", pane |-> panes[k],
             level |-> invalidateForPane(mask, panes[k]).level]]
        \o <<[kind |-> "paintTimeAxis", level |-> fullInvalidation(mask)]>>

IsPending == invalidateMask # Nothing

Pending == invalidateMask[1]

Drawing == pass.pc # "idle"

dataVars == <<timePointData, plotRows, pointDataByTimePoint, seriesRowsBySeries,
              seriesLastTimePoint, sortedTimePoints, lastCall, response, history, heldTimes,
              heldWhitespace, items, madeRows>>

\* window.requestAnimationFrame returns a handle that is not 0 and was not
\* returned before: here the number of the invalidate call that asks for it
requestAnimationFrame == calls + 1

\* the merge the frame callback's request is skipped for
mergeIntoPending(pending, mask) == IF pending # Nothing THEN merge(pending[1], mask) ELSE mask

\* _invalidateHandler(invalidateMask), the call-th call of it; the mask a
\* takeScreenshot draws is the pending mask object itself until one of the
\* two is replaced
invalidateHandler(mask) ==
    /\ pass.pc \in {"idle", "guard", "paint"}
    /\ calls < MaxInvalidates
    /\ calls' = calls + 1
    /\ invalidateMask' = Some(mergeIntoPending(invalidateMask, mask))
    /\ pass' = IF Drawing /\ pass.aliased THEN [pass EXCEPT !.mask = invalidateMask'[1]] ELSE pass
    /\ IF ~drawPlanned
       THEN /\ drawPlanned' = TRUE
            /\ frameRequests' = frameRequests + 1
            /\ drawRafId' = requestAnimationFrame
       ELSE UNCHANGED <<drawPlanned, frameRequests, drawRafId>>
    /\ submitted' = Append(submitted, mask)
    /\ UNCHANGED <<drawLog, destroyed, dataVars, maskVars, delegateVars>>

Invalidate == \E mask \in Masks(calls + 1) : invalidateHandler(mask)

StartPass(mask, caller, aliased) ==
    /\ pass' = [pc |-> "drawImpl", mask |-> mask, caller |-> caller, since |-> calls,
                outcome |-> "none", aliased |-> aliased]
    /\ drawLog' = << >>

\* the callback given to requestAnimationFrame
AnimationFrame ==
    /\ ~Drawing
    /\ frameRequests > 0
    /\ frameRequests' = frameRequests - 1
    /\ drawPlanned' = FALSE
    /\ drawRafId' = 0
    /\ IF IsPending
       THEN /\ StartPass(Pending, "frame", FALSE)
            /\ invalidateMask' = Nothing
            /\ submitted' = << >>
       ELSE UNCHANGED <<pass, drawLog, invalidateMask, submitted>>
    /\ UNCHANGED <<calls, destroyed, dataVars, maskVars, delegateVars>>

\* takeScreenshot up to its call of _drawImpl; without a pending mask it draws nothing
TakeScreenshot ==
    /\ ~Drawing
    /\ IsPending
    /\ StartPass(Pending, "takeScreenshot", TRUE)
    /\ UNCHANGED <<invalidateMask, drawPlanned, frameRequests, drawRafId, destroyed, submitted,
                   calls, dataVars, maskVars, delegateVars>>

\* _drawImpl up to the re-entry guard
DrawImplUpdate ==
    /\ pass.pc = "drawImpl"
    /\ LET invalidationType == fullInvalidation(pass.mask)
       IN  /\ drawLog' = drawLog
                 \o (IF invalidationType = Full THEN _updateGui ELSE << >>)
                 \o (IF invalidationType \in {Full, Light}
                     THEN _applyMomentaryAutoScale(pass.mask)
                          \o _applyTimeScaleInvalidations(pass.mask)
                          \o updateAxisWidgets
                     ELSE << >>)
           /\ pass' = [pass EXCEPT !.pc = IF invalidationType \in {Full, Light}
                                          THEN "guard" ELSE "paint"]
    /\ UNCHANGED <<invalidateMask, drawPlanned, frameRequests, drawRafId, destroyed, submitted,
                   calls, dataVars, maskVars, delegateVars>>

\* the re-entry guard of _drawImpl
DrawImplGuard ==
    /\ pass.pc = "guard"
    /\ IF IsPending /\ fullInvalidation(Pending) = Full
       THEN IF pass.aliased /\ mergeWithItselfDiverges(Pending)
            THEN /\ pass' = [pass EXCEPT !.pc = "merging"]
                 /\ UNCHANGED <<invalidateMask, drawLog, submitted>>
            ELSE LET merged == IF pass.aliased
                               THEN mergeWithItself(Pending)
                               ELSE merge(Pending, pass.mask)
                 IN  /\ drawLog' = drawLog \o _updateGui \o _applyMomentaryAutoScale(merged)
                                       \o _applyTimeScaleInvalidations(merged)
                     /\ pass' = [pass EXCEPT !.pc = "paint", !.mask = merged,
                                             !.aliased = FALSE]
                     /\ invalidateMask' = Nothing
                     /\ submitted' = << >>
       ELSE /\ pass' = [pass EXCEPT !.pc = "paint"]
            /\ UNCHANGED <<invalidateMask, drawLog, submitted>>
    /\ UNCHANGED <<drawPlanned, frameRequests, drawRafId, destroyed, calls, dataVars, maskVars, delegateVars>>

\* what follows the return of _drawImpl in its caller
Returned(outcome) ==
    /\ pass' = [pass EXCEPT !.pc = "idle", !.mask = Nothing, !.outcome = outcome,
                            !.aliased = FALSE]
    /\ IF pass.caller = "takeScreenshot" /\ outcome = "painted"
       THEN invalidateMask' = Nothing /\ submitted' = << >>
       ELSE UNCHANGED <<invalidateMask, submitted>>

\* this.paint(invalidateMask) with renderers that draw
DrawImplPaint ==
    /\ pass.pc = "paint"
    /\ drawLog' = drawLog \o paint(pass.mask)
    /\ Returned("painted")
    /\ UNCHANGED <<drawPlanned, frameRequests, drawRafId, destroyed, calls, dataVars, maskVars, delegateVars>>

\* this.paint(invalidateMask) with a renderer that throws
DrawImplRaise ==
    /\ pass.pc = "paint"
    /\ drawLog' = Append(drawLog, [kind |-> "raised", to |-> pass.caller])
    /\ Returned("raised")
    /\ UNCHANGED <<drawPlanned, frameRequests, drawRafId, destroyed, calls, dataVars, maskVars, delegateVars>>

NextChartWidget ==
    \/ Invalidate
    \/ AnimationFrame
    \/ TakeScreenshot
    \/ DrawImplUpdate
    \/ DrawImplGuard
    \/ DrawImplPaint
    \/ DrawImplRaise

SpecChartWidget == Init /\ [][NextChartWidget]_vars

\* JavaScript runs a callback to its end, so a draw pass that can take its
\* next step takes it; the host runs a frame callback it was asked for
\* between two tasks, however often a task starts a pass of its own
Fairness ==
    /\ SF_vars(AnimationFrame)
    /\ WF_vars(DrawImplUpdate)
    /\ WF_vars(DrawImplGuard)
    /\ WF_vars(DrawImplPaint \/ DrawImplRaise)

\* the scheduler on a host that runs every requested frame
SpecFrames == Init /\ [][NextChartWidget]_vars /\ Fairness

\* a faulty variant: destroy leaves the requested frame alone
destroyWithoutCancel ==
    /\ pass.pc \in {"idle", "guard", "paint"}
    /\ ~destroyed
    /\ destroyed' = TRUE
    /\ UNCHANGED <<invalidateMask, drawPlanned, frameRequests, drawRafId, pass, drawLog,
                   submitted, calls, dataVars, maskVars, delegateVars>>

\* ChartWidget.destroy, called between two callbacks or from inside a draw
\* pass: of the scheduler it only cancels the frame whose handle _drawRafId
\* holds, which is the one request outstanding, if any
destroy ==
    /\ pass.pc \in {"idle", "guard", "paint"}
    /\ ~destroyed
    /\ destroyed' = TRUE
    /\ frameRequests' = IF drawRafId # 0 THEN 0 ELSE frameRequests
    /\ UNCHANGED <<invalidateMask, drawPlanned, drawRafId, pass, drawLog, submitted, calls,
                   dataVars, maskVars, delegateVars>>

NextDestroy == NextChartWidget \/ destroy

\* the scheduler of a chart widget that is destroyed at some time
SpecDestroy == Init /\ [][NextDestroy]_vars

-----------------------------------------------------------------------------
(* InvalidateMask on its own: two masks a caller holds and calls the methods *)
(* of, for runs of at most MaxMaskCalls calls.  recorded keeps, per mask,    *)
(* the pane invalidations and the time-scale setter calls it has received,   *)
(* those that a merge replays from the other mask included, the masks        *)
(* merged into it, and the level it was constructed with.                    *)

MaxMaskCalls == 3

MaskNames == {"a", "b"}

\* the DataLayer as its constructor leaves it, before any call
NewDataLayer ==
    /\ timePointData = EmptyLayer.timePointData
    /\ plotRows = EmptyLayer.plotRows
    /\ pointDataByTimePoint = EmptyLayer.pointDataByTimePoint
    /\ seriesRowsBySeries = EmptyLayer.seriesRowsBySeries
    /\ seriesLastTimePoint = EmptyLayer.seriesLastTimePoint
    /\ sortedTimePoints = EmptyLayer.sortedTimePoints
    /\ lastCall = [op |-> "new"]
    /\ response = [series |-> EmptyMap, timeScale |-> [baseIndex |-> Nothing]]
    /\ history = Nothing
    /\ calls = 0
    /\ heldTimes = EmptyMap
    /\ heldWhitespace = EmptyMap
    /\ items = << >>
    /\ madeRows = << >>

NothingRecorded(level) == [level |-> level, panes |-> {}, setters |-> << >>, merged |-> << >>]

\* two masks fresh from the constructor, of any level
InitMasks ==
    /\ NewDataLayer
    /\ NewChartWidget
    /\ NoDelegate
    /\ heldMasks \in [MaskNames -> {InvalidateMask(level) : level \in InvalidationLevel}]
    /\ recorded = [name \in MaskNames |-> NothingRecorded(fullInvalidation(heldMasks[name]))]

AllPaneInvalidations == [level : InvalidationLevel, autoScale : BOOLEAN]

\* the time-scale setter calls a caller can make
SetterCalls ==
    {[type |-> "FitContent"], [type |-> "Reset"]}
    \cup {[type |-> type, value |-> value] :
             type \in {"ApplyRange", "ApplyBarSpacing", "ApplyRightOffset"}, value \in Values}

\* a setter call with the number of the call
Numbered(setter, call) ==
    [field \in DOMAIN setter \cup {"call"} |-> IF field = "call" THEN call ELSE setter[field]]

MaskCall ==
    /\ calls < MaxMaskCalls
    /\ calls' = calls + 1
    /\ UNCHANGED <<timePointData, plotRows, pointDataByTimePoint, seriesRowsBySeries,
                   seriesLastTimePoint, sortedTimePoints, lastCall, response, history,
                   heldTimes, heldWhitespace, items, madeRows, widgetVars, delegateVars>>

\* heldMasks[name].invalidatePane(paneIndex, invalidation)
InvalidatePane(name, paneIndex, invalidation) ==
    /\ MaskCall
    /\ heldMasks' = [heldMasks EXCEPT ![name] = invalidatePane(@, paneIndex, invalidation)]
    /\ recorded' = [recorded EXCEPT ![name].panes = @ \cup {<<paneIndex, invalidation>>}]

\* one of the five time-scale setters of heldMasks[name]
SetTimeScale(name, setter) ==
    /\ MaskCall
    /\ heldMasks' = [heldMasks EXCEPT ![name] =
                         applyTimeScaleInvalidationToMask(@, Numbered(setter, calls + 1))]
    /\ recorded' = [recorded EXCEPT ![name].setters = Append(@, Numbered(setter, calls + 1))]

\* heldMasks[this].merge(heldMasks[other]), two different objects
Merge(this, other) ==
    /\ this # other
    /\ MaskCall
    /\ heldMasks' = [heldMasks EXCEPT ![this] = merge(@, heldMasks[other])]
    /\ recorded' = [recorded EXCEPT
                       ![this].panes =
                           @ \cup {<<i, heldMasks[other].invalidatedPanes[i]>> :
                                      i \in DOMAIN heldMasks[other].invalidatedPanes},
                       ![this].setters = @ \o heldMasks[other].timeScaleInvalidations,
                       ![this].merged = Append(@, other)]

NextMasks ==
    \/ \E name \in MaskNames, paneIndex \in Panes, invalidation \in AllPaneInvalidations :
           InvalidatePane(name, paneIndex, invalidation)
    \/ \E name \in MaskNames, setter \in SetterCalls : SetTimeScale(name, setter)
    \/ \E this \in MaskNames, other \in MaskNames : Merge(this, other)

SpecMasks == InitMasks /\ [][NextMasks]_vars

-----------------------------------------------------------------------------
(* helpers/delegate.ts.  A callback that fire invokes may call the methods   *)
(* of the delegate, fire included, before it returns: such a call is a step  *)
(* taken while firing is not empty and the innermost fire has invoked a      *)
(* listener.  Each listener carries the number of the subscribe call that    *)
(* made it, and each fire what was subscribed when it started, what it has   *)
(* invoked and what was added and removed meanwhile; the code reads none of  *)
(* these.                                                                    *)

NumCallbacks == 2
MaxDelegateCalls == 3
MaxSubscribed == 2

Callbacks == 1..NumCallbacks

\* undefined, and one object
LinkedObjects == {"undefined", "object"}

\* subscribe: the Listener object that is pushed
Listener(id, callback, linkedObject, singleshot) ==
    [id |-> id, callback |-> callback, linkedObject |-> linkedObject,
     singleshot |-> singleshot = TRUE]

Ids(list) == {list[k].id : k \in 1..Len(list)}

\* the lists subscribe calls can have built before the run starts
RECURSIVE SubscribedLists(_)
SubscribedLists(n) ==
    IF n = 0 THEN {<< >>}
    ELSE LET shorter == SubscribedLists(n - 1)
         IN  shorter \cup
             {Append(list, Listener(0 - (Len(list) + 1), callback, linkedObject, singleshot)) :
                 list \in {l \in shorter : Len(l) = n - 1}, callback \in Callbacks,
                 linkedObject \in LinkedObjects, singleshot \in BOOLEAN}

InitDelegate ==
    /\ NewDataLayer
    /\ NewChartWidget
    /\ NoMasks
    /\ listeners \in SubscribedLists(MaxSubscribed)
    /\ firing = << >>
    /\ fired = << >>

\* a method of the delegate can be called: by the program between two fires,
\* or by the callback the innermost fire is in
InsideCallback == firing # << >> /\ firing[Len(firing)].next > 1

DelegateCall ==
    /\ firing = << >> \/ InsideCallback
    /\ calls < MaxDelegateCalls
    /\ calls' = calls + 1
    /\ UNCHANGED <<timePointData, plotRows, pointDataByTimePoint, seriesRowsBySeries,
                   seriesLastTimePoint, sortedTimePoints, lastCall, response, history,
                   heldTimes, heldWhitespace, items, madeRows, widgetVars, maskVars>>

\* the listeners removed from the live list while the fire was in flight, with
\* the number of listeners the fire had invoked by then
RemovedDuring(frame, removed) == {[id |-> id, after |-> Len(frame.invoked)] : id \in removed}

\* what the fires in flight have seen added and removed
Meanwhile(added, removed) ==
    [k \in 1..Len(firing) |->
        [firing[k] EXCEPT !.added = @ \cup added,
                          !.removed = @ \cup RemovedDuring(firing[k], removed)]]

subscribe(callback, linkedObject, singleshot) ==
    LET listener == Listener(calls + 1, callback, linkedObject, singleshot)
    IN  /\ DelegateCall
        /\ listeners' = Append(listeners, listener)
        /\ firing' = Meanwhile({listener.id}, {})
        /\ UNCHANGED fired

\* Array.prototype.findIndex, 0-based, -1 when there is none
findIndex(list, callback) ==
    LET found == {k \in 1..Len(list) : callback = list[k].callback}
    IN  IF found # {}
        THEN (CHOOSE k \in found : \A n \in found : k <= n) - 1
        ELSE 0 - 1

\* Array.prototype.splice(index, 1)
SpliceOut(list, index) == SubSeq(list, 1, index) \o SubSeq(list, index + 2, Len(list))

\* the list unsubscribe(callback) leaves
unsubscribed(list, callback) ==
    LET index == findIndex(list, callback)
    IN  IF index > 0 - 1 THEN SpliceOut(list, index) ELSE list

\* a faulty variant: unsubscribe also removes the listener from the snapshots
\* of the fires in flight
unsubscribeInFlight(callback) ==
    /\ DelegateCall
    /\ listeners' = unsubscribed(listeners, callback)
    /\ firing' = [k \in 1..Len(firing) |->
                     [firing[k] EXCEPT !.snapshot = unsubscribed(@, callback),
                                       !.removed = @ \cup RemovedDuring(firing[k],
                                                       Ids(listeners) \ Ids(listeners'))]]
    /\ UNCHANGED fired

unsubscribe(callback) ==
    /\ DelegateCall
    /\ listeners' = unsubscribed(listeners, callback)
    /\ firing' = Meanwhile({}, Ids(listeners) \ Ids(listeners'))
    /\ UNCHANGED fired

\* the list unsubscribeAll(linkedObject) leaves
unsubscribedAll(list, linkedObject) ==
    SelectSeq(list, LAMBDA listener : listener.linkedObject # linkedObject)

unsubscribeAll(linkedObject) ==
    /\ DelegateCall
    /\ listeners' = unsubscribedAll(listeners, linkedObject)
    /\ firing' = Meanwhile({}, Ids(listeners) \ Ids(listeners'))
    /\ UNCHANGED fired

\* a faulty variant: the snapshot is taken of the list without its single-shot listeners
snapshotOfRepeating(list) == SelectSeq(list, LAMBDA listener : ~listener.singleshot)

\* fire: const listenersSnapshot = [...this._listeners]
listenersSnapshot(list) == list

\* a faulty variant: fire leaves the single-shot listeners in the list
withSingleshot(list) == list

\* fire: what is left in this._listeners before the callbacks run
withoutSingleshot(list) == SelectSeq(list, LAMBDA listener : ~listener.singleshot)

\* fire(param1, param2) up to the forEach
fire ==
    /\ DelegateCall
    /\ listeners' = withoutSingleshot(listeners)
    /\ firing' = Append(Meanwhile({}, Ids(listeners) \ Ids(listeners')),
                        [fire |-> calls + 1, snapshot |-> listenersSnapshot(listeners),
                         next |-> 1, atStart |-> listeners, invoked |-> << >>,
                         added |-> {}, removed |-> {}])
    /\ UNCHANGED fired

\* the listener the forEach of the innermost fire calls next
nextListener(frame) == frame.snapshot[frame.next]

\* listenersSnapshot.forEach: the call of one listener.callback
Callback ==
    /\ firing # << >>
    /\ LET frame == firing[Len(firing)]
       IN  /\ frame.next <= Len(frame.snapshot)
           /\ firing' = [firing EXCEPT ![Len(firing)] =
                            [frame EXCEPT !.next = @ + 1,
                                          !.invoked = Append(@, nextListener(frame).id)]]
    /\ UNCHANGED <<listeners, fired, calls, dataVars, widgetVars, maskVars>>

\* the forEach is over, and the last callback has returned: fire returns
FireReturns ==
    /\ firing # << >>
    /\ firing[Len(firing)].next > Len(firing[Len(firing)].snapshot)
    /\ fired' = Append(fired, firing[Len(firing)])
    /\ firing' = SubSeq(firing, 1, Len(firing) - 1)
    /\ UNCHANGED <<listeners, calls, dataVars, widgetVars, maskVars>>

NextDelegate ==
    \/ \E callback \in Callbacks, linkedObject \in LinkedObjects, singleshot \in BOOLEAN :
           subscribe(callback, linkedObject, singleshot)
    \/ \E callback \in Callbacks : unsubscribe(callback)
    \/ \E linkedObject \in LinkedObjects : unsubscribeAll(linkedObject)
    \/ fire
    \/ Callback
    \/ FireReturns

SpecDelegate == InitDelegate /\ [][NextDelegate]_vars

-----------------------------------------------------------------------------
(* Properties *)

\* the timestamps of the sorted array, in array order
SortedTimes == [i \in 1..Len(sortedTimePoints) |-> sortedTimePoints[i].time.timestamp]

\* the last call was an updateSeriesData that spliced a new point in at position k
SplicedAt(k) ==
    /\ lastCall.op = "updateSeriesData"
    /\ "timeScale" \in DOMAIN response
    /\ "firstChangedPointIndex" \in DOMAIN response.timeScale
    /\ response.timeScale.firstChangedPointIndex = k

\* C1: after every operation, for every position i of the sorted array,
\* sortedTimePoints[i].pointData.index equals i (0-based), so the indexes are 0..N-1.
C1_SortedIndexIsPosition ==
    \A i \in 1..Len(sortedTimePoints) :
        timePointData[sortedTimePoints[i].pointData].index = i - 1

\* C1 witness: an update spliced a point in front of an existing one, whose index moved.
C1_Witness ==
    /\ SplicedAt(0)
    /\ Len(sortedTimePoints) >= 2
    /\ C1_SortedIndexIsPosition

\* C2: after every operation, every row r of every per-series row list has r.index equal
\* to the position, in the sorted array, of the point whose timestamp is r.time.timestamp.
C2_RowIndexIsPositionOfItsTime ==
    \A s \in DOMAIN seriesRowsBySeries :
        \A k \in 1..Len(seriesRowsBySeries[s]) :
            LET r == plotRows[seriesRowsBySeries[s][k]]
            IN  \E i \in 1..Len(sortedTimePoints) :
                    /\ SortedTimes[i] = r.time.timestamp
                    /\ r.index = i - 1

\* C3: after every operation, the timestamp map and the sorted array reference the same
\* TimePointData records: the map's keys are the sorted array's timestamps, and the record
\* under sortedTimePoints[i].time.timestamp is sortedTimePoints[i].pointData itself.
C3_MapAndArrayShareRecords ==
    /\ DOMAIN pointDataByTimePoint = Range(SortedTimes)
    /\ \A i \in 1..Len(sortedTimePoints) :
          /\ MapHas(pointDataByTimePoint, SortedTimes[i])
          /\ pointDataByTimePoint[SortedTimes[i]] = sortedTimePoints[i].pointData

\* C4: after every operation, the sorted array is the strictly ascending enumeration of
\* exactly the timestamps at which some series currently holds an item, and no point with
\* an empty mapping remains.
C4_ArrayEnumeratesHeldTimes ==
    /\ \A i, j \in 1..Len(sortedTimePoints) : i < j => SortedTimes[i] < SortedTimes[j]
    /\ Range(SortedTimes) = UNION {heldTimes[s] : s \in DOMAIN heldTimes}
    /\ \A i \in 1..Len(sortedTimePoints) :
          MapSize(timePointData[sortedTimePoints[i].pointData].mapping) # 0

\* C5: after every operation, for every TimePointData of the sorted array and every row in
\* its mapping, row.index equals pointData.index.
C5_RowsFollowTheirPoint ==
    \A i \in 1..Len(sortedTimePoints) :
        LET pd == timePointData[sortedTimePoints[i].pointData]
        IN  \A s \in DOMAIN pd.mapping : plotRows[pd.mapping[s]].index = pd.index

\* C5 witness: an update spliced a point in front of a point that two series share,
\* so that point and both of its rows were given a new index.
C5_Witness ==
    /\ SplicedAt(0)
    /\ \E i \in 2..Len(sortedTimePoints) :
          LET pd == timePointData[sortedTimePoints[i].pointData]
          IN  /\ MapSize(pd.mapping) >= 2
              /\ \A s \in DOMAIN pd.mapping : plotRows[pd.mapping[s]].index = i - 1

\* the indexes of the last rows of the non-empty per-series row lists
LastRowIndexes ==
    {plotRows[seriesRowsBySeries[s][Len(seriesRowsBySeries[s])]].index :
        s \in {x \in DOMAIN seriesRowsBySeries : Len(seriesRowsBySeries[x]) # 0}}

\* C6: the baseIndex of every response equals the maximum index among the last rows of all
\* series' row lists, and is null exactly when every series' row list is empty.
C6_BaseIndexIsMaxOfLastRows ==
    "timeScale" \in DOMAIN response =>
        response.timeScale.baseIndex =
            IF LastRowIndexes = {} THEN Nothing ELSE Some(MaxOf(LastRowIndexes))

\* a step that repeats the setSeriesData call that was made last
RepeatsSetSeriesData ==
    /\ lastCall.op = "setSeriesData"
    /\ lastCall' = lastCall

\* C7: calling setSeriesData(s, X) twice in a row leaves the internal state the first call
\* left, and the second response reports no time-scale change (no points, no first changed
\* index) while its series map still contains s with its data.
C7_SetSeriesDataIsIdempotent ==
    [][RepeatsSetSeriesData =>
        /\ Layer' = Layer
        /\ "points" \notin DOMAIN response'.timeScale
        /\ "firstChangedPointIndex" \notin DOMAIN response'.timeScale
        /\ MapHas(response'.series, lastCall.series)
        /\ response'.series[lastCall.series].data =
              IF MapHas(seriesRowsBySeries', lastCall.series)
              THEN [i \in 1..Len(seriesRowsBySeries'[lastCall.series]) |->
                        plotRows'[seriesRowsBySeries'[lastCall.series][i]]]
              ELSE << >>]_vars

\* what the removal round trip compares: the sorted timestamps, the index of every point
\* and of every row of its mapping, the row lists of the series other than s, the base index
Observables(L, s) ==
    [times |-> [i \in 1..Len(L.sortedTimePoints) |-> L.sortedTimePoints[i].time.timestamp],
     indexes |-> [i \in 1..Len(L.sortedTimePoints) |->
                    L.timePointData[L.sortedTimePoints[i].pointData].index],
     rows |-> [x \in (DOMAIN L.seriesRowsBySeries) \ {s} |->
                    RowValues(L, L.seriesRowsBySeries[x])],
     baseIndex |-> _getBaseIndex(L)]

\* a step that removes the series the last call gave its first data to
RemovesWhatWasJustSet ==
    /\ history # Nothing
    /\ lastCall.op = "setSeriesData"
    /\ lastCall'.op = "removeSeries"
    /\ lastCall'.series = lastCall.series

\* C8: for a series s that held no data, setSeriesData(s, X) followed by removeSeries(s)
\* leaves the sorted timestamps, every index, every other series' row list and the base
\* index as they were before the first call.
C8_RemovalRoundTrip ==
    [][RemovesWhatWasJustSet =>
        Observables(Layer', lastCall.series) = Observables(history[1], lastCall.series)]_vars

\* a step that calls updateSeriesData with a time earlier than the series' recorded last time
UpdatesBeforeLastTime ==
    /\ lastCall'.op = "updateSeriesData"
    /\ MapHas(seriesLastTimePoint, lastCall'.series)
    /\ lastCall'.data.time < seriesLastTimePoint[lastCall'.series].timestamp

\* C9: updateSeriesData(s, p) whose timestamp is earlier than the series' recorded last time
\* point fails with an error, and the timestamp map, the sorted array, the per-series row
\* lists and the per-series last times are exactly as before the call.
C9_OutOfOrderUpdateIsRejected ==
    [][UpdatesBeforeLastTime =>
        /\ "error" \in DOMAIN response'
        /\ Layer' = Layer]_vars

\* C9 witness: an update earlier than the recorded last time of a series with data returned
\* the error.
C9_Witness ==
    /\ lastCall.op = "updateSeriesData"
    /\ "error" \in DOMAIN response
    /\ MapHas(seriesLastTimePoint, lastCall.series)
    /\ lastCall.data.time < seriesLastTimePoint[lastCall.series].timestamp
    /\ Len(sortedTimePoints) # 0

\* C10: with strictly ascending setSeriesData inputs, after any sequence of calls each
\* per-series row list is strictly increasing in time.timestamp.
C10_RowListsStrictlyIncrease ==
    \A s \in DOMAIN seriesRowsBySeries :
        \A i, j \in 1..Len(seriesRowsBySeries[s]) :
            i < j => plotRows[seriesRowsBySeries[s][i]].time.timestamp
                        < plotRows[seriesRowsBySeries[s][j]].time.timestamp

\* C10 witness: an update at the time of the last row of a two-row list replaced that row.
C10_Witness ==
    /\ lastCall.op = "updateSeriesData"
    /\ "error" \notin DOMAIN response
    /\ MapHas(seriesRowsBySeries, lastCall.series)
    /\ Len(seriesRowsBySeries[lastCall.series]) = 2
    /\ plotRows[seriesRowsBySeries[lastCall.series][2]].time.timestamp = lastCall.data.time
    /\ C10_RowListsStrictlyIncrease

\* C11: after any sequence of operations, no whitespace row appears in any per-series row
\* list, while every whitespace item a series holds still occupies a slot of the sorted
\* time-point array and is present in that point's mapping.
C11_WhitespaceOnlyInTheSharedIndex ==
    /\ \A s \in DOMAIN seriesRowsBySeries :
          \A k \in 1..Len(seriesRowsBySeries[s]) :
              isSeriesPlotRow(plotRows[seriesRowsBySeries[s][k]])
    /\ \A s \in DOMAIN heldWhitespace :
          \A t \in heldWhitespace[s] :
              \E i \in 1..Len(sortedTimePoints) :
                  LET pd == timePointData[sortedTimePoints[i].pointData]
                  IN  /\ SortedTimes[i] = t
                      /\ MapHas(pd.mapping, s)
                      /\ ~isSeriesPlotRow(plotRows[pd.mapping[s]])

\* the step is a call that returned a response (it did not throw)
Responds == "error" \notin DOMAIN response'

\* the step changed what the sorted time-point array shows: its times or its weights
ChangesSortedTimePoints == PointsOf(Layer') # PointsOf(Layer)

\* C12: a response carries the points and firstChangedPointIndex fields exactly when the
\* operation changed the sorted time-point array; when it did not, the response's series
\* map contains only the updated series and there is no points field.
C12_PointsIffTimeScaleChanged ==
    [][Responds =>
        /\ ("points" \in DOMAIN response'.timeScale) <=> ChangesSortedTimePoints
        /\ ("firstChangedPointIndex" \in DOMAIN response'.timeScale) <=> ChangesSortedTimePoints
        /\ ~ChangesSortedTimePoints => DOMAIN response'.series = {lastCall'.series}]_vars

\* C12 witness: an update of a series at a time the chart already has, while another series
\* has rows, returned a response without points that carries the updated series only.
C12_Witness ==
    /\ lastCall.op = "updateSeriesData"
    /\ "error" \notin DOMAIN response
    /\ "points" \notin DOMAIN response.timeScale
    /\ DOMAIN response.series = {lastCall.series}
    /\ \E s \in DOMAIN seriesRowsBySeries : s # lastCall.series /\ Len(seriesRowsBySeries[s]) # 0

\* the index of the TimePointData of each point of the sorted array, in array order
SortedIndexes ==
    [i \in 1..Len(sortedTimePoints) |-> timePointData[sortedTimePoints[i].pointData].index]

\* the time weight of each point of the sorted array, in array order
SortedWeights == [i \in 1..Len(sortedTimePoints) |-> sortedTimePoints[i].timeWeight]

\* position i lies before the first position where the old and the new sorted array differ
InCommonPrefix(i) ==
    /\ i <= Len(sortedTimePoints)
    /\ i <= Len(sortedTimePoints')
    /\ \A j \in 1..i : SortedTimes[j] = SortedTimes'[j]

\* C13: after a setSeriesData, every time point at a position before the first position
\* where the old and the new sorted arrays differ keeps its timestamp, its index and its
\* timeWeight.
C13_PrefixIsStable ==
    [][lastCall'.op \in {"setSeriesData", "removeSeries"} =>
        \A i \in 1..Len(sortedTimePoints) :
            InCommonPrefix(i) =>
                /\ SortedTimes'[i] = SortedTimes[i]
                /\ SortedIndexes'[i] = SortedIndexes[i]
                /\ SortedWeights'[i] = SortedWeights[i]]_vars

\* C13 witness: a setSeriesData changed the sorted array from its third position on, behind
\* a second point that carries a weight.
C13_Witness ==
    /\ lastCall.op = "setSeriesData"
    /\ "firstChangedPointIndex" \in DOMAIN response.timeScale
    /\ response.timeScale.firstChangedPointIndex = 2
    /\ Len(sortedTimePoints) = 3
    /\ sortedTimePoints[2].timeWeight # 0

\* the response reports a time-scale change
ReportsTimeScaleChange ==
    /\ "timeScale" \in DOMAIN response
    /\ "firstChangedPointIndex" \in DOMAIN response.timeScale
    /\ response.timeScale.firstChangedPointIndex >= 0

\* C14: when a response reports a time-scale change, its series map contains every series
\* that currently has a row list, each with its complete current row list; info is attached
\* only to the updated series; an updated series whose data was wiped still appears, with
\* an empty data list.
C14_FullResponseListsEverySeries ==
    ReportsTimeScaleChange =>
        /\ DOMAIN response.series = (DOMAIN seriesRowsBySeries) \cup {lastCall.series}
        /\ \A s \in DOMAIN seriesRowsBySeries :
              response.series[s].data = RowValues(Layer, seriesRowsBySeries[s])
        /\ \A s \in DOMAIN response.series :
              s # lastCall.series => response.series[s].info = Nothing
        /\ ~MapHas(seriesRowsBySeries, lastCall.series) =>
              response.series[lastCall.series].data = << >>

\* C14 witness: removing a series changed the time scale while another series keeps rows;
\* the response lists the other series and the removed one, the latter without data.
C14_Witness ==
    /\ lastCall.op = "removeSeries"
    /\ ReportsTimeScaleChange
    /\ ~MapHas(seriesRowsBySeries, lastCall.series)
    /\ response.series[lastCall.series].data = << >>
    /\ \E s \in DOMAIN seriesRowsBySeries :
          /\ Len(seriesRowsBySeries[s]) # 0
          /\ response.series[s].data = RowValues(Layer, seriesRowsBySeries[s])

\* the timestamps of the rows of the row list of series s, in list order
RowTimes(L, s) ==
    IF MapHas(L.seriesRowsBySeries, s)
    THEN [k \in 1..Len(L.seriesRowsBySeries[s]) |->
            L.plotRows[L.seriesRowsBySeries[s][k]].time.timestamp]
    ELSE << >>

\* the step leaves the last and the first row of series s where they were or later
TailEditOrAppend(s) ==
    /\ RowTimes(Layer', s)[Len(RowTimes(Layer', s))] >= RowTimes(Layer, s)[Len(RowTimes(Layer, s))]
    /\ RowTimes(Layer', s)[1] >= RowTimes(Layer, s)[1]

\* the step is a call of op that returned a response with info for the updated series
RespondsWithInfo(op) ==
    /\ lastCall'.op = op
    /\ Responds
    /\ response'.series[lastCall'.series].info # Nothing

\* the info flag of the response of the step
InfoFlag == response'.series[lastCall'.series].info[1].lastBarUpdatedOrNewBarsAddedToTheRight

\* C15 as stated: in every response that carries info for the updated series, from
\* setSeriesData or updateSeriesData, the flag is true exactly when the series' new last row
\* timestamp >= its previous last row timestamp and its new first row timestamp >= its
\* previous first row timestamp (read here for the steps where the series has rows before
\* and after the call).
C15_InfoComparesFirstAndLastRows ==
    [][\A op \in {"setSeriesData", "updateSeriesData"} :
         (/\ RespondsWithInfo(op)
          /\ Len(RowTimes(Layer, lastCall'.series)) # 0
          /\ Len(RowTimes(Layer', lastCall'.series)) # 0)
         => (InfoFlag <=> TailEditOrAppend(lastCall'.series))]_vars

\* C15 amended: a setSeriesData response that carries info has the flag true exactly when
\* the new last row timestamp >= the previous last and the new first >= the previous first;
\* an updateSeriesData response always carries info, and its flag is true exactly when the
\* item passed is value-bearing (not whitespace).
C15_InfoOfSetAndOfUpdate ==
    [][/\ RespondsWithInfo("setSeriesData") =>
            /\ Len(RowTimes(Layer, lastCall'.series)) # 0
            /\ Len(RowTimes(Layer', lastCall'.series)) # 0
            /\ InfoFlag <=> TailEditOrAppend(lastCall'.series)
       /\ (lastCall'.op = "updateSeriesData" /\ Responds) =>
            /\ response'.series[lastCall'.series].info # Nothing
            /\ InfoFlag <=> ~isWhitespaceData(lastCall'.data)]_vars

\* C15 witness: a setSeriesData put a row in front of the rows the series had, and the
\* response carries info with the flag false.
C15_Witness ==
    /\ lastCall.op = "setSeriesData"
    /\ Len(lastCall.data) = 2
    /\ response.series[lastCall.series].info # Nothing
    /\ ~response.series[lastCall.series].info[1].lastBarUpdatedOrNewBarsAddedToTheRight

\* C16: every row produced by setSeriesData or updateSeriesData has originalTime equal to
\* the time value the caller's item carried at the moment it was passed to that call, also
\* when the call is given an item object that an earlier call already processed.
C16_OriginalTimeIsTheTimeGiven ==
    \A i \in 1..Len(madeRows) : madeRows[i].originalTime = madeRows[i].given

\* the time-scale lists of the masks, one after the other
RECURSIVE AllTimeScaleInvalidations(_)
AllTimeScaleInvalidations(masks) ==
    IF masks = << >> THEN << >>
    ELSE Head(masks).timeScaleInvalidations \o AllTimeScaleInvalidations(Tail(masks))

Replacing == {"FitContent", "ApplyRange", "Reset"}

\* the masks merged in the order of the sequence: the highest level, per pane
\* the highest level and whether one entry has autoScale, and of the time-scale
\* invalidations in order the last replacing one and what follows it
MergedInOrder(masks) ==
    LET all == AllTimeScaleInvalidations(masks)
        heads == {i \in 1..Len(all) : all[i].type \in Replacing}
        first == IF heads = {} THEN 1 ELSE MaxOf(heads)
        entries(i) == {masks[k].invalidatedPanes[i] :
                          k \in {n \in 1..Len(masks) : MapHas(masks[n].invalidatedPanes, i)}}
    IN  [globalLevel |-> MaxOf({masks[k].globalLevel : k \in 1..Len(masks)}),
         invalidatedPanes |->
             [i \in UNION {DOMAIN masks[k].invalidatedPanes : k \in 1..Len(masks)} |->
                 [level |-> MaxOf({e.level : e \in entries(i)}),
                  autoScale |-> \E e \in entries(i) : e.autoScale]],
         timeScaleInvalidations |-> SubSeq(all, first, Len(all)),
         from |-> UNION {masks[k].from : k \in 1..Len(masks)}]

PaintsOf(log, i) == Cardinality({k \in 1..Len(log) : log[k].kind = "paintPane" /\ log[k].pane = i})

\* C17: invalidate calls made before the requested frame fires collapse into
\* one paint.  At most one frame request is outstanding, and one is exactly
\* when a draw is planned; a call of invalidate draws and paints nothing and
\* starts no draw pass; the frame callback that finds masks pending starts one
\* draw pass, on the merge of these masks in the order of their calls; and a
\* draw pass paints a pane once.
C17_InvalidatesCollapseIntoOnePaint ==
    [][/\ frameRequests' <= 1
       /\ drawPlanned' <=> frameRequests' = 1
       /\ calls' # calls => drawLog' = drawLog /\ pass'.pc = pass.pc
       /\ frameRequests' < frameRequests /\ submitted # << >>
            => /\ pass'.pc = "drawImpl"
               /\ pass'.mask = MergedInOrder(submitted)
               /\ invalidateMask' = Nothing
       /\ \A i \in Panes : PaintsOf(drawLog', i) <= 1]_vars

\* the frame has fired on three masks, two of them with a time-scale setter
C17_Witness ==
    /\ pass.pc = "drawImpl"
    /\ pass.caller = "frame"
    /\ Cardinality(pass.mask.from) = 3
    /\ Len(pass.mask.timeScaleInvalidations) = 2
    /\ frameRequests = 0

\* what a step adds to the log of the draw pass
Added ==
    IF Len(drawLog') >= Len(drawLog)
    THEN SubSeq(drawLog', Len(drawLog) + 1, Len(drawLog'))
    ELSE drawLog'

OfKind(log, kinds) == SelectSeq(log, LAMBDA entry : entry.kind \in kinds)

Painting == {"paintPane", "paintTimeAxis"}

\* C18: in a draw pass whose mask is Light or Full, the time-scale
\* invalidations of the mask are applied in list order first, then the panes
\* whose entry has autoScale are auto-scaled, and only then the panes are
\* painted: each time _drawImpl applies a mask, no auto-scale comes before one
\* of its time-scale invalidations, the first application applies the list of
\* the mask as it is and auto-scales the panes with autoScale, and nothing
\* follows the painting.
C18_TimeScaleThenAutoScaleThenPaint ==
    [][/\ \A i \in 1..Len(Added), j \in 1..Len(Added) :
              i < j => ~(Added[i].kind = "momentaryAutoScale" /\ Added[j].kind = "timeScale")
       /\ pass.pc = "drawImpl" /\ pass'.pc # "drawImpl"
              /\ fullInvalidation(pass.mask) \in {Light, Full}
            => /\ OfKind(Added, {"timeScale"})
                    = [k \in 1..Len(pass.mask.timeScaleInvalidations) |->
                          [kind |-> "timeScale",
                           invalidation |-> pass.mask.timeScaleInvalidations[k]]]
               /\ {entry.pane : entry \in Range(OfKind(Added, {"momentaryAutoScale"}))}
                    = {i \in Panes : invalidateForPane(pass.mask, i).autoScale}
       /\ OfKind(Added, Painting) # << >>
            => Added = OfKind(Added, Painting) /\ pass'.pc = "idle"]_vars

\* the time-scale invalidations the draw pass has applied so far, in order
AppliedToTimeScale ==
    LET applied == OfKind(drawLog, {"timeScale"})
    IN  [k \in 1..Len(applied) |-> applied[k].invalidation]

FirstApplied(invalidation) ==
    CHOOSE k \in 1..Len(AppliedToTimeScale) :
        /\ AppliedToTimeScale[k] = invalidation
        /\ \A n \in 1..(k - 1) : AppliedToTimeScale[n] # invalidation

LastApplied(invalidation) ==
    CHOOSE k \in 1..Len(AppliedToTimeScale) :
        /\ AppliedToTimeScale[k] = invalidation
        /\ \A n \in (k + 1)..Len(AppliedToTimeScale) : AppliedToTimeScale[n] # invalidation

\* C19: within one frame the time-scale mutations reach the time scale in the
\* order in which invalidate enqueued them.  Of two mutations the draw pass
\* applies, the one enqueued later is first applied after the earlier one is
\* first applied, and is last applied after the earlier one is last applied,
\* so that the earlier one does not override it; this covers a mutation
\* enqueued while the pass runs and picked up by the re-entry guard.
C19_TimeScaleMutationsInEnqueueOrder ==
    \A earlier \in Range(AppliedToTimeScale), later \in Range(AppliedToTimeScale) :
        earlier.call < later.call
            => /\ FirstApplied(earlier) < FirstApplied(later)
               /\ LastApplied(earlier) < LastApplied(later)

\* the last draw pass ended by a renderer failure
LastPassRaised == pass.pc = "idle" /\ pass.outcome = "raised"

\* the pending mask holds nothing that was submitted before the last pass started
PendingIsFresh == IsPending => \A call \in Pending.from : call > pass.since

\* C20: the scheduler never raises to the caller of invalidate, and a renderer
\* failure during a draw pass is confined to that frame.  A failure goes to
\* what started the pass, never to invalidate; after a failed pass a draw is
\* marked as planned only while a frame request is outstanding, and the
\* pending mask holds only invalidations submitted after the failed pass
\* started, so that the next frame draws the fresh mask.
C20_RendererFailureIsConfinedToItsFrame ==
    /\ \A entry \in Range(OfKind(drawLog, {"raised"})) : entry.to \in {"frame", "takeScreenshot"}
    /\ LastPassRaised => (drawPlanned <=> frameRequests > 0) /\ PendingIsFresh

\* C21: destroy cancels any pending frame.  When destroy returns no frame
\* request is outstanding, so the callback of a frame requested before destroy
\* never runs, and draws nothing, after it.
C21_DestroyCancelsThePendingFrame ==
    [][~destroyed /\ destroyed' => frameRequests' = 0]_vars

\* destroy has cancelled the frame that was planned for a pending mask
C21_Witness ==
    /\ destroyed
    /\ drawPlanned
    /\ drawRafId # 0
    /\ IsPending
    /\ frameRequests = 0

\* the pane invalidations the mask has received for pane i
RecordedForPane(name, i) == {entry[2] : entry \in {e \in recorded[name].panes : e[1] = i}}

\* C22: after any sequence of invalidatePane and merge calls on a mask,
\* invalidateForPane(i).level is the maximum of the mask's global level and
\* of the levels of all invalidations recorded for pane i, and its autoScale
\* is truthy exactly when one of these had autoScale true; with nothing
\* recorded for pane i the level is the global level and autoScale is not set.
C22_PaneLevelIsMaxOfRecorded ==
    \A name \in DOMAIN heldMasks, i \in Panes :
        LET got == invalidateForPane(heldMasks[name], i)
            levels == {invalidation.level : invalidation \in RecordedForPane(name, i)}
        IN  /\ got.level = MaxOf({fullInvalidation(heldMasks[name])} \cup levels)
            /\ got.autoScale <=> \E invalidation \in RecordedForPane(name, i) : invalidation.autoScale
            /\ RecordedForPane(name, i) = {}
                 => got.level = fullInvalidation(heldMasks[name]) /\ ~got.autoScale

\* a mask of level None has received, one of them through a merge, a Full
\* invalidation without autoScale and a lower one with autoScale for a pane
C22_Witness ==
    \E name \in DOMAIN heldMasks, i \in Panes :
        /\ fullInvalidation(heldMasks[name]) = None
        /\ recorded[name].panes = {<<i, [level |-> Full, autoScale |-> FALSE]>>,
                                   <<i, [level |-> Cursor, autoScale |-> TRUE]>>}
        /\ \E other \in DOMAIN heldMasks : other # name /\ recorded[other].panes # {}

\* of a sequence of setter calls, the last replacing one and the calls after it
FromLastReplacing(setters) ==
    LET heads == {k \in 1..Len(setters) : setters[k].type \in Replacing}
    IN  IF heads = {} THEN setters ELSE SubSeq(setters, MaxOf(heads), Len(setters))

\* C23: after any sequence of time-scale setter calls on a mask its list is
\* the variant of the last replacing call (setFitContent, applyRange,
\* resetTimeScale), if there was one, followed by exactly the setBarSpacing
\* and setRightOffset calls made after it, in call order; a replacing variant
\* occurs only as the first element.
C23_ListIsLastReplacingThenAppends ==
    \A name \in DOMAIN heldMasks :
        LET list == timeScaleInvalidations(heldMasks[name])
        IN  /\ list = FromLastReplacing(recorded[name].setters)
            /\ \A k \in 2..Len(list) : list[k].type \notin Replacing

\* a mask has received an appending call, a replacing one and an appending one
C23_Witness ==
    \E name \in DOMAIN heldMasks :
        /\ Len(recorded[name].setters) = 3
        /\ recorded[name].setters[1].type \notin Replacing
        /\ recorded[name].setters[2].type \in Replacing
        /\ recorded[name].setters[3].type \notin Replacing
        /\ Len(timeScaleInvalidations(heldMasks[name])) = 2

\* the step is heldMasks[this].merge(heldMasks[other])
IsMerge(this, other) ==
    /\ Len(recorded'[this].merged) = Len(recorded[this].merged) + 1
    /\ recorded'[this].merged[Len(recorded'[this].merged)] = other

\* C24: a.merge(b), for distinct masks a and b, leaves a's time-scale list
\* equal to the replay of b's list through the setters: b's list alone when
\* it begins with a replacing variant, otherwise a's previous list followed
\* by b's list in order; b is not modified.
C24_MergeReplaysTheOtherList ==
    [][\A a \in DOMAIN heldMasks, b \in DOMAIN heldMasks :
          IsMerge(a, b)
            => LET before == timeScaleInvalidations(heldMasks[a])
                   other == timeScaleInvalidations(heldMasks[b])
               IN  /\ timeScaleInvalidations(heldMasks'[a])
                        = IF other # << >> /\ other[1].type \in Replacing
                          THEN other
                          ELSE before \o other
                   /\ heldMasks'[b] = heldMasks[b]]_vars

\* a mask with one appended invalidation has taken over a list that begins
\* with a replacing variant and goes on
C24_Witness ==
    \E a \in DOMAIN heldMasks, b \in DOMAIN heldMasks :
        /\ recorded[a].merged = <<b>>
        /\ Len(recorded[a].setters) = 2
        /\ recorded[a].setters[1].type \notin Replacing
        /\ recorded[a].setters[1].call = 1
        /\ Len(timeScaleInvalidations(heldMasks[b])) = 1
        /\ timeScaleInvalidations(heldMasks[a]) = timeScaleInvalidations(heldMasks[b])

PaneLevel(mask, i) == invalidateForPane(mask, i).level

\* C25: merge monotonicity.  After a.merge(b) the global level of a is at
\* least the two global levels before, and for every pane the level a reports
\* is at least what either mask reported before; and no call on a mask lowers
\* its global level or the level it reports for a pane.
C25_MergeIsMonotone ==
    [][/\ \A a \in DOMAIN heldMasks, b \in DOMAIN heldMasks :
              IsMerge(a, b)
                => /\ fullInvalidation(heldMasks'[a]) >= fullInvalidation(heldMasks[a])
                   /\ fullInvalidation(heldMasks'[a]) >= fullInvalidation(heldMasks[b])
                   /\ \A i \in Panes :
                          /\ PaneLevel(heldMasks'[a], i) >= PaneLevel(heldMasks[a], i)
                          /\ PaneLevel(heldMasks'[a], i) >= PaneLevel(heldMasks[b], i)
       /\ \A name \in DOMAIN heldMasks :
              /\ fullInvalidation(heldMasks'[name]) >= fullInvalidation(heldMasks[name])
              /\ \A i \in Panes :
                     PaneLevel(heldMasks'[name], i) >= PaneLevel(heldMasks[name], i)]_vars

\* a merge has raised the global level of a mask constructed with None to the
\* level of the other, and has brought it a pane invalidation
C25_Witness ==
    \E a \in DOMAIN heldMasks, b \in DOMAIN heldMasks :
        /\ recorded[a].merged = <<b>>
        /\ recorded[a].level = None
        /\ fullInvalidation(heldMasks[a]) = Light
        /\ fullInvalidation(heldMasks[b]) = Light
        /\ \E i \in Panes : recorded[a].panes = {<<i, [level |-> Full, autoScale |-> FALSE]>>}

\* the fires that have returned and those in flight
Fires == Range(fired) \cup Range(firing)

IdsInOrder(list) == [k \in 1..Len(list) |-> list[k].id]

\* C26: fire invokes exactly the listeners that were subscribed when it
\* started, each once, in subscription order: a fire in flight has invoked
\* the first of them in that order, and a fire that has returned all of them.
C26_FireInvokesTheSubscribedInOrder ==
    /\ \A f \in Range(firing) :
           f.invoked = SubSeq(IdsInOrder(f.atStart), 1, Len(f.invoked))
    /\ \A f \in Range(fired) : f.invoked = IdsInOrder(f.atStart)

\* a fire that started with a single-shot and a repeating listener has returned
C26_Witness ==
    \E k \in 1..Len(fired) :
        /\ Len(fired[k].atStart) = 2
        /\ fired[k].atStart[1].singleshot
        /\ ~fired[k].atStart[2].singleshot
        /\ Len(fired[k].invoked) = 2

\* how often the fires have invoked the listener so far
Invocations(id) ==
    Cardinality({call \in {<<f.fire, n>> : f \in Fires, n \in 1..MaxSubscribed + MaxDelegateCalls} :
                    \E f \in Fires :
                        /\ f.fire = call[1]
                        /\ call[2] <= Len(f.invoked)
                        /\ f.invoked[call[2]] = id})

\* C27: a listener subscribed as single-shot is invoked at most once over
\* any sequence of fire calls, those made from inside a listener callback of
\* a fire in flight included.
C27_SingleshotIsInvokedAtMostOnce ==
    \A f \in Fires :
        \A k \in 1..Len(f.atStart) :
            f.atStart[k].singleshot => Invocations(f.atStart[k].id) <= 1

\* the callback of a single-shot listener has called fire, and that fire has
\* returned while the first is in flight
C27_Witness ==
    /\ Len(firing) = 1
    /\ firing[1].atStart # << >>
    /\ firing[1].atStart[1].singleshot
    /\ firing[1].invoked = <<firing[1].atStart[1].id>>
    /\ Len(firing[1].atStart) = 1
    /\ Len(fired) = 1
    /\ fired[1].fire > firing[1].fire

\* the step is a call of fire
IsFire == Len(firing') = Len(firing) + 1

\* C28: subscribe, unsubscribe and unsubscribeAll calls made from inside a
\* listener callback during a fire do not change which listeners that fire
\* invokes, and take effect from the next fire on: a fire that has returned
\* has invoked every listener it started with, those removed meanwhile
\* included, and none that was added meanwhile; and a fire starts with the
\* listeners that are subscribed at that time.
C28_CallsDuringFireAffectTheNextFire ==
    [][/\ \A f \in Range(fired') :
              /\ \A id \in {r.id : r \in f.removed} \cap Ids(f.atStart) : id \in Range(f.invoked)
              /\ \A id \in f.added : id \notin Range(f.invoked)
       /\ IsFire => firing'[Len(firing')].snapshot = listeners]_vars

\* a repeating listener was unsubscribed during a fire before its turn and
\* was invoked by that fire, and the next fire started without it
C28_Witness ==
    /\ Len(fired) = 2
    /\ fired[2].fire > fired[1].fire
    /\ \E k \in 2..Len(fired[1].atStart) :
           /\ ~fired[1].atStart[k].singleshot
           /\ \E r \in fired[1].removed : r.id = fired[1].atStart[k].id /\ r.after < k
           /\ fired[1].atStart[k].id \in Range(fired[1].invoked)
           /\ fired[1].atStart[k].id \notin Ids(fired[2].atStart)

\* the timestamps of a sorted array of time scale points
TimestampsOf(points) == [i \in 1..Len(points) |-> points[i].time.timestamp]

\* the array setSeriesData builds from the timestamp map and sorts
NewTimestamps(map) == Ascending(DOMAIN map)

\* the first position (0-based) at which two arrays of timestamps differ, the
\* length of the shorter one if one is a proper prefix of the other, else -1
FirstDifference(old, new) ==
    LET common == Min(Len(old), Len(new))
        differing == {i \in 1..common : old[i] # new[i]}
    IN  IF differing # {} THEN (CHOOSE i \in differing : \A j \in differing : i <= j) - 1
        ELSE IF Len(old) # Len(new) THEN common
        ELSE -1

\* the firstChangedPointIndex a response reports; a response without the
\* field reports no change
Reported(r) ==
    IF "firstChangedPointIndex" \in DOMAIN r.timeScale
    THEN r.timeScale.firstChangedPointIndex
    ELSE -1

\* the step is a call of setSeriesData
IsSetSeriesData == lastCall'.op = "setSeriesData"

\* C29: the firstChangedPointIndex setSeriesData reports is the smallest
\* position at which the sorted array before the call and the array sorted
\* from the timestamp map after the call hold different timestamps, the
\* length of the shorter one if one is a proper prefix of the other, and -1
\* if the two hold the same timestamps.
C29_FirstChangedIsTheFirstDifference ==
    [][IsSetSeriesData =>
          Reported(response') =
              FirstDifference(TimestampsOf(sortedTimePoints),
                              NewTimestamps(pointDataByTimePoint'))]_vars

\* a series without data was given a timestamp between two of the time
\* scale, and the response reports the position of the second
C29_Witness ==
    /\ lastCall.op = "setSeriesData"
    /\ history # Nothing
    /\ LET old == TimestampsOf(history[1].sortedTimePoints)
           new == NewTimestamps(pointDataByTimePoint)
       IN  /\ Len(old) >= 2
           /\ Len(new) > Len(old)
           /\ old[1] = new[1]
           /\ old[2] # new[2]
           /\ Reported(response) = 1

\* the step is a call of updateSeriesData that returns, at a timestamp the
\* timestamp map does not hold yet
IsInsertingUpdate ==
    /\ lastCall'.op = "updateSeriesData"
    /\ "error" \notin DOMAIN response'
    /\ ~MapHas(pointDataByTimePoint, lastCall'.data.time)

\* the number of points of the sorted array with a smaller timestamp
PointsBefore(points, timestamp) ==
    Cardinality({i \in 1..Len(points) : points[i].time.timestamp < timestamp})

\* the rows a point's mapping holds, by series
MappedRows(L, point) ==
    LET mapping == L.timePointData[point.pointData].mapping
    IN  [s \in DOMAIN mapping |-> L.plotRows[mapping[s]]]

\* the point is spliced in at position k, and the points before k are as they were
SplicedInAt(before, after, k, timestamp) ==
    /\ TimestampsOf(after.sortedTimePoints) =
          SpliceIn(TimestampsOf(before.sortedTimePoints), k, timestamp)
    /\ \A i \in 1..k :
          /\ after.sortedTimePoints[i].timeWeight = before.sortedTimePoints[i].timeWeight
          /\ after.timePointData[after.sortedTimePoints[i].pointData].index =
                before.timePointData[before.sortedTimePoints[i].pointData].index
          /\ MappedRows(after, after.sortedTimePoints[i]) =
                MappedRows(before, before.sortedTimePoints[i])

\* every point formerly at a position >= k, and every row of its mapping, has
\* its index raised by one
PointsRaisedFrom(before, after, k) ==
    \A i \in (k + 1)..Len(before.sortedTimePoints) :
        LET was == before.sortedTimePoints[i]
            is == after.sortedTimePoints[i + 1]
        IN  /\ after.timePointData[is.pointData].index =
                  before.timePointData[was.pointData].index + 1
            /\ DOMAIN MappedRows(after, is) = DOMAIN MappedRows(before, was)
            /\ \A s \in DOMAIN MappedRows(before, was) :
                  MappedRows(after, is)[s].index = MappedRows(before, was)[s].index + 1

\* every row of a per-series list at a later timestamp has its index raised by one
ListedRowsRaisedAfter(before, after, timestamp) ==
    \A s \in DOMAIN before.seriesRowsBySeries :
        \A j \in 1..Len(before.seriesRowsBySeries[s]) :
            LET was == before.plotRows[before.seriesRowsBySeries[s][j]]
            IN  was.time.timestamp > timestamp =>
                  /\ MapHas(after.seriesRowsBySeries, s)
                  /\ j <= Len(after.seriesRowsBySeries[s])
                  /\ after.plotRows[after.seriesRowsBySeries[s][j]].index = was.index + 1

\* C30: updateSeriesData at a timestamp that is not yet in the time scale
\* inserts the new point at position k = the number of existing points with
\* a smaller timestamp, leaves the points before k unchanged, raises by one
\* the index of every point formerly at a position >= k together with the
\* index of every row in its mapping and in the per-series lists, and
\* returns firstChangedPointIndex = k with the points.
C30_UpdateInsertsAndReindexesTheTail ==
    [][IsInsertingUpdate =>
          LET timestamp == lastCall'.data.time
              k == PointsBefore(sortedTimePoints, timestamp)
          IN  /\ SplicedInAt(Layer, Layer', k, timestamp)
              /\ PointsRaisedFrom(Layer, Layer', k)
              /\ ListedRowsRaisedAfter(Layer, Layer', timestamp)
              /\ Reported(response') = k
              /\ "points" \in DOMAIN response'.timeScale
              /\ response'.timeScale.points = PointsOf(Layer')]_vars

\* the step is a call of updateSeriesData that returns, at a timestamp the
\* timestamp map holds already
IsUpdateInPlace ==
    /\ lastCall'.op = "updateSeriesData"
    /\ Responds
    /\ MapHas(pointDataByTimePoint, lastCall'.data.time)

\* the row lists of the series other than s
OtherRowLists(L, s) ==
    [x \in (DOMAIN L.seriesRowsBySeries) \ {s} |-> RowValues(L, L.seriesRowsBySeries[x])]

\* the timestamp of the last row of the list of series s, if it has one
LastRowTime(L, s) ==
    IF MapHas(L.seriesRowsBySeries, s) /\ Len(L.seriesRowsBySeries[s]) # 0
    THEN Some(L.plotRows[L.seriesRowsBySeries[s][Len(L.seriesRowsBySeries[s])]].time.timestamp)
    ELSE Nothing

\* C31: updateSeriesData at a timestamp that already exists in the time
\* scale returns no firstChangedPointIndex and no points, and leaves the
\* sorted array (timestamps, indexes, weights) and every other series' row
\* list unchanged; when the timestamp is that of the series' last row and
\* the item bears a value, the last row is replaced in place by a row of the
\* item's value and the list keeps its length and its other rows.
C31_UpdateInPlaceLeavesTheTimeScale ==
    [][IsUpdateInPlace =>
          LET s == lastCall'.series
              item == lastCall'.data
          IN  /\ "firstChangedPointIndex" \notin DOMAIN response'.timeScale
              /\ "points" \notin DOMAIN response'.timeScale
              /\ SortedTimes' = SortedTimes
              /\ SortedIndexes' = SortedIndexes
              /\ SortedWeights' = SortedWeights
              /\ OtherRowLists(Layer', s) = OtherRowLists(Layer, s)
              /\ (LastRowTime(Layer, s) = Some(item.time) /\ ~isWhitespaceData(item)) =>
                    LET was == RowValues(Layer, seriesRowsBySeries[s])
                        is == RowValues(Layer', seriesRowsBySeries'[s])
                    IN  /\ Len(is) = Len(was)
                        /\ \A j \in 1..(Len(was) - 1) : is[j] = was[j]
                        /\ is[Len(is)].time.timestamp = item.time
                        /\ is[Len(is)].value = item.value]_vars

\* the series' last row, of two, has been replaced by a row of another
\* value, while the other series holds rows too
C31_Witness ==
    /\ lastCall.op = "updateSeriesData"
    /\ "error" \notin DOMAIN response
    /\ history # Nothing
    /\ LET s == lastCall.series
           item == lastCall.data
           before == history[1]
       IN  /\ ~isWhitespaceData(item)
           /\ LastRowTime(before, s) = Some(item.time)
           /\ Len(before.seriesRowsBySeries[s]) = 2
           /\ RowValues(before, before.seriesRowsBySeries[s])[2].value # item.value
           /\ RowValues(Layer, seriesRowsBySeries[s])[2].value = item.value
           /\ OtherRowLists(before, s) # EmptyMap
           /\ "points" \notin DOMAIN response.timeScale

\* the step is a call of updateSeriesData that returns
IsUpdate == lastCall'.op = "updateSeriesData" /\ Responds

\* the rows of the list of series s, none if it has no list
ListedRows(L, s) ==
    IF MapHas(L.seriesRowsBySeries, s) THEN RowValues(L, L.seriesRowsBySeries[s]) ELSE << >>

\* the call before the step was an updateSeriesData of series s with a
\* whitespace item at the timestamp, which has left no row of s there
PoppedAt(s, timestamp) ==
    /\ lastCall.op = "updateSeriesData"
    /\ lastCall.series = s
    /\ isWhitespaceData(lastCall.data)
    /\ lastCall.data.time = timestamp
    /\ "error" \notin DOMAIN response
    /\ LastRowTime(Layer, s) # Some(timestamp)

\* the position of the timestamp in the sorted array, 0-based
PositionOf(L, timestamp) == PointsBefore(L.sortedTimePoints, timestamp)

\* the row lists of the series before and after the step
WasListed == ListedRows(Layer, lastCall'.series)

IsListed == ListedRows(Layer', lastCall'.series)

\* the item of the step is at the timestamp of the last row of the list
AtLastRow == LastRowTime(Layer, lastCall'.series) = Some(lastCall'.data.time)

\* the list after the step is the list before it and one more row, of the item
AppendsTheItem ==
    /\ Len(IsListed) = Len(WasListed) + 1
    /\ SubSeq(IsListed, 1, Len(WasListed)) = WasListed
    /\ IsListed[Len(IsListed)].time.timestamp = lastCall'.data.time
    /\ IsListed[Len(IsListed)].value = lastCall'.data.value

\* C32: updateSeriesData changes the row list of its series as follows: a
\* whitespace item at the timestamp of the last row removes that row; a
\* value item at the timestamp of the last row replaces it; a value item
\* beyond the last row is appended; a whitespace item beyond the last row
\* leaves the list unchanged; and a value item sent at the same timestamp
\* right after such a removal is appended with the index of that time
\* point, its position in the sorted array.
C32_UpdateChangesTheRowListAtItsTail ==
    [][IsUpdate =>
          LET s == lastCall'.series
              item == lastCall'.data
          IN  /\ (AtLastRow /\ isWhitespaceData(item)) =>
                    IsListed = SubSeq(WasListed, 1, Len(WasListed) - 1)
              /\ (AtLastRow /\ ~isWhitespaceData(item)) =>
                    /\ Len(IsListed) = Len(WasListed)
                    /\ SubSeq(IsListed, 1, Len(WasListed) - 1) =
                          SubSeq(WasListed, 1, Len(WasListed) - 1)
                    /\ IsListed[Len(IsListed)].time.timestamp = item.time
                    /\ IsListed[Len(IsListed)].value = item.value
              /\ (~AtLastRow /\ ~isWhitespaceData(item)) => AppendsTheItem
              /\ (~AtLastRow /\ isWhitespaceData(item)) => IsListed = WasListed
              /\ (PoppedAt(s, item.time) /\ ~isWhitespaceData(item)) =>
                    /\ AppendsTheItem
                    /\ IsListed[Len(IsListed)].index = PositionOf(Layer', item.time)]_vars

\* C33: while a draw pass runs, whether the frame callback or takeScreenshot
\* started it, the mask being drawn is not the object in the pending slot:
\* it was taken out of the slot before the pass started, and a pending mask
\* holds only invalidations that arrived after that.
C33_DrawnMaskIsOutOfThePendingSlot ==
    Drawing => /\ ~pass.aliased
               /\ IsPending => \A call \in Pending.from : call > pass.since

\* the masks given to invalidate since the running pass started
Accumulated == SelectSeq(submitted, LAMBDA mask : \A call \in mask.from : call > pass.since)

\* one of them has level Full
FullAccumulated ==
    \E k \in 1..Len(Accumulated) : fullInvalidation(Accumulated[k]) = Full

\* the step is the re-entry guard of the running pass
IsGuard == pass.pc = "guard" /\ pass'.pc # "guard"

\* the step is the paint that ends the running pass
IsPaint == pass.pc = "paint" /\ pass'.pc = "idle" /\ pass'.outcome = "painted"

\* C34: at the re-entry guard of a Light or Full draw pass, if a mask of
\* level Full was given to invalidate since the pass started, the pending
\* mask is merged with the one being drawn, the time-scale and auto-scale
\* step is run once more on the merged mask, the pass goes on to paint, and
\* nothing is pending; if no such mask was given, nothing is re-run and what
\* is pending stays pending.  The paint of the pass uses the mask the guard
\* left, and leaves the masks given since, which the guard did not merge,
\* pending for a frame that is requested.
C34_GuardMergesAFullMaskAndRerunsOnce ==
    [][/\ IsGuard =>
            /\ pass'.pc = "paint"
            /\ IF FullAccumulated
               THEN /\ pass'.mask.from = pass.mask.from \cup Pending.from
                    /\ fullInvalidation(pass'.mask) = Full
                    /\ drawLog' = drawLog \o _updateGui
                                          \o _applyMomentaryAutoScale(pass'.mask)
                                          \o _applyTimeScaleInvalidations(pass'.mask)
                    /\ invalidateMask' = Nothing
               ELSE /\ pass'.mask = pass.mask
                    /\ drawLog' = drawLog
                    /\ invalidateMask' = invalidateMask
       /\ (IsPaint /\ fullInvalidation(pass.mask) \in {Light, Full}) =>
            /\ drawLog' = drawLog \o paint(pass.mask)
            /\ Accumulated # << >> =>
                  /\ invalidateMask' # Nothing
                  /\ invalidateMask' = invalidateMask
                  /\ frameRequests' > 0]_vars

\* the step belongs to the running draw pass and does something
IsDrawStep == Drawing /\ drawLog' # drawLog

\* the mask such a step works on: the guard works on the mask it has merged
MaskOfStep == IF pass'.pc = "idle" THEN pass.mask ELSE pass'.mask

\* the paints of the panes with their levels, in pane order
PanePaints(mask) ==
    LET panes == Ascending(Panes)
    IN  [k \in 1..Len(panes) |->
            [kind |-> "paintPane", pane |-> panes[k],
             level |-> invalidateForPane(mask, panes[k]).level]]

\* C35: a draw pass synchronises the pane widgets with the model's panes
\* only when the global level of its mask is Full, and does so when it
\* starts at that level; it applies the auto-scale and the time-scale
\* invalidations only when that level is Light or Full, and does so when it
\* starts at one of these; at every level it paints each pane i with the
\* level invalidateForPane(i).level; for a mask of level None or Cursor
\* nothing but the paint happens.
C35_LevelDecidesWhatThePassDoes ==
    [][IsDrawStep =>
          LET level == fullInvalidation(MaskOfStep)
          IN  /\ OfKind(Added, {"updateGui"}) # << >> => level = Full
              /\ OfKind(Added, {"momentaryAutoScale", "timeScale", "updateAxisWidgets"}) # << >>
                    => level \in {Light, Full}
              /\ level \in {None, Cursor} => OfKind(Added, Painting \cup {"raised"}) = Added
              /\ pass.pc = "drawImpl" =>
                    /\ level = Full => OfKind(Added, {"updateGui"}) = _updateGui
                    /\ level \in {Light, Full} =>
                          /\ OfKind(Added, {"momentaryAutoScale"}) =
                                _applyMomentaryAutoScale(MaskOfStep)
                          /\ OfKind(Added, {"timeScale"}) =
                                _applyTimeScaleInvalidations(MaskOfStep)
              /\ IsPaint => OfKind(Added, {"paintPane"}) = PanePaints(MaskOfStep)]_vars

\* a pass of a mask of level Cursor has painted a pane at level Light and
\* done nothing else
C35_Witness ==
    /\ pass.pc = "idle"
    /\ pass.outcome = "painted"
    /\ drawLog # << >>
    /\ OfKind(drawLog, Painting) = drawLog
    /\ drawLog[1] = [kind |-> "paintPane", pane |-> 0, level |-> Light]
    /\ drawLog[Len(drawLog)] = [kind |-> "paintTimeAxis", level |-> Cursor]

\* C36: every draw pass terminates, the passes included in which the
\* re-entry guard merges the pending mask for a pass that takeScreenshot
\* started on it: no call of merge goes on for ever.
C36_EveryDrawPassTerminates == Drawing ~> ~Drawing

\* the time-scale invalidations enqueued since the pending slot was last
\* emptied that no replacing variant enqueued after them supersedes
Enqueued ==
    {invalidation \in UNION {Range(timeScaleInvalidations(mask)) : mask \in Range(submitted)} :
        \A mask \in Range(submitted) :
            \A other \in Range(timeScaleInvalidations(mask)) :
                other.call > invalidation.call => other.type \notin Replacing}

\* the pending slot is emptied
PendingDiscarded == IsPending /\ ~IsPending'

\* C37: no time-scale invalidation is lost.  When the pending slot is emptied
\* of a mask whose level is Light or Full, every invalidation enqueued into it
\* that no later replacing variant supersedes either has been applied by the
\* running draw pass or is in the list of the mask the pass that starts is
\* given, and a pass given a mask of such a level applies all of its list;
\* this covers the invalidations enqueued while a pass runs.
C37_NoTimeScaleInvalidationIsLost ==
    [][/\ PendingDiscarded /\ fullInvalidation(Pending) \in {Light, Full}
            => \A invalidation \in Enqueued :
                   IF pass'.pc = "drawImpl"
                   THEN invalidation \in Range(timeScaleInvalidations(pass'.mask))
                   ELSE invalidation \in Range(AppliedToTimeScale')
       /\ pass.pc = "drawImpl" /\ pass'.pc # "drawImpl"
              /\ fullInvalidation(pass.mask) \in {Light, Full}
            => Range(timeScaleInvalidations(pass.mask)) \subseteq Range(AppliedToTimeScale')]_vars

PaneLevels == [Panes -> {None, Cursor, Light, Full}]

\* the call-th invalidate was given a mask with these pane levels and the
\* mask still waits in the pending slot
Awaits(call, levels) ==
    \E k \in 1..Len(submitted) :
        /\ submitted[k].from = {call}
        /\ \A i \in Panes : invalidateForPane(submitted[k], i).level = levels[i]

Taken(call) == call <= calls /\ \A mask \in Range(submitted) : call \notin mask.from

\* a pass has painted every pane at the level asked for, after it or its
\* caller took the mask of the call-th invalidate out of the slot
PaintedFor(call, levels) ==
    /\ Taken(call)
    /\ pass.pc = "idle"
    /\ pass.outcome = "painted"
    /\ \A i \in Panes :
           \E entry \in Range(OfKind(drawLog, {"paintPane"})) :
               entry.pane = i /\ entry.level >= levels[i]

\* the pass that drew the mask of the call-th invalidate ended in a renderer failure
RaisedFor(call) == Taken(call) /\ LastPassRaised

FrameIsOutstanding == ~Drawing /\ IsPending => frameRequests > 0

\* C38: on a host that runs every requested frame, the widget not being
\* destroyed, every invalidate(mask) is eventually followed by a paint in
\* which each pane i is painted at a level of at least
\* mask.invalidateForPane(i).level, unless a renderer throws in the pass that
\* draws it; and whenever a mask is pending while no pass runs, a frame is
\* outstanding.
C38_EveryInvalidateIsEventuallyPainted ==
    /\ []FrameIsOutstanding
    /\ \A call \in 1..MaxInvalidates, levels \in PaneLevels :
           Awaits(call, levels) ~> (PaintedFor(call, levels) \/ RaisedFor(call))

\* the layer as its users see it: the timestamp map with the mappings of its
\* points, the sorted array, the row list and the last time of every series
Observed(L) ==
    LET pointData(pd) ==
            [index |-> L.timePointData[pd].index,
             timePoint |-> L.timePointData[pd].timePoint,
             mapping |-> [s \in DOMAIN L.timePointData[pd].mapping |->
                             L.plotRows[L.timePointData[pd].mapping[s]]]]
    IN  [pointDataByTimePoint |->
             [t \in DOMAIN L.pointDataByTimePoint |-> pointData(L.pointDataByTimePoint[t])],
         sortedTimePoints |->
             [i \in 1..Len(L.sortedTimePoints) |->
                 [time |-> L.sortedTimePoints[i].time,
                  timeWeight |-> L.sortedTimePoints[i].timeWeight,
                  pointData |-> pointData(L.sortedTimePoints[i].pointData)]],
         seriesRowsBySeries |->
             [s \in DOMAIN L.seriesRowsBySeries |-> RowValues(L, L.seriesRowsBySeries[s])],
         seriesLastTimePoint |-> L.seriesLastTimePoint]

SetSeriesDataRaised == calls' = calls + 1 /\ lastCall'.op = "setSeriesData" /\ "error" \in DOMAIN response'

\* C39: when setSeriesData raises while it processes its input, on an item
\* whose time is of another variant than the first item's or on a string that
\* is no date, the layer is as it was before the call: the timestamp map and
\* the mappings of its points, the sorted array, the row lists and the last
\* times of the series.
C39_RaisingSetSeriesDataLeavesTheLayer ==
    [][SetSeriesDataRaised => Observed(Layer') = Observed(Layer)]_vars

\* the call takes the branch for the only series (lines 308-313)
TakesFastPath(L, series) ==
    MapHas(L.seriesRowsBySeries, series) /\ MapSize(L.seriesRowsBySeries) = 1

\* C40: the branch of setSeriesData for the only series is equivalent to the
\* general path.  From every state the layer reaches, for every series that
\* takes the branch and every input, both leave the same layer, object for
\* object, so that every later operation does the same on both, and both
\* return the same response.
C40_FastPathIsTheGeneralPath ==
    \A series \in Series, data \in DataSets :
        TakesFastPath(Layer, series)
            => /\ Collect(setSeriesData(Layer, series, data).layer)
                    = Collect(setSeriesDataByGeneralPath(Layer, series, data).layer)
               /\ setSeriesData(Layer, series, data).response
                    = setSeriesDataByGeneralPath(Layer, series, data).response

====
